---- MODULE Spec2Model ----
(***************************************************************************)
(* A model of pyrender's scene graph (scene.py, node.py) and of the GPU    *)
(* resource management of its renderer (renderer.py, primitive.py,         *)
(* texture.py, shader_program.py, light.py).                               *)
(***************************************************************************)
EXTENDS Integers, Sequences, FiniteSets, TLC

None == "None"
World == "world"

\* The Node objects the application holds, and the objects it can attach.
Nodes == {"n1", "n2", "n3"}
Meshes == {"m1", "m2", "m3"}
Cameras == {"c1", "c2"}
PointLights == {"pl"}
SpotLights == {"sl"}
DirectionalLights == {"dl"}
Lights == PointLights \cup SpotLights \cup DirectionalLights
Objects == Meshes \cup Cameras \cup Lights
Names == {"a", "b"}

\* The name attribute of an attached object (Mesh.name, Camera.name, Light.name).
ObjName(o) == IF o = "m1" THEN "a" ELSE IF o = "c1" THEN "b" ELSE None

\* Mesh(primitives, is_visible=...): the mesh m3 is built invisible.
is_visible == [m \in Meshes |-> m # "m3"]

(***************************************************************************)
(* Local matrices.  A matrix is a proper rotation of the coordinate axes,  *)
(* written as the signed permutation <<c1, c2, c3>>: column i of the       *)
(* matrix holds Sgn(ci) in row Abs(ci) and zero elsewhere.                 *)
(***************************************************************************)
Abs(x) == IF x < 0 THEN -x ELSE x
Sgn(x) == IF x < 0 THEN -1 ELSE 1
Eye == <<1, 2, 3>>
RotX == <<1, 3, -2>>
RotZ == <<2, -1, 3>>
Poses == {Eye, RotX, RotZ}

\* np.dot(A, B): column i of the product is A applied to column i of B.
Dot(A, B) == [i \in 1..3 |-> Sgn(B[i]) * A[Abs(B[i])]]

\* pose[:3,:3].dot(v): the matrix A applied to the point v.
Apply(A, v) ==
    [r \in 1..3 |-> LET i == CHOOSE i \in 1..3 : Abs(A[i]) = r IN Sgn(A[i]) * v[i]]

\* Mesh.bounds, the box <<minimum corner, maximum corner>> of the positions.
MeshBounds ==
    [m \in Meshes |->
        IF m = "m1" THEN <<(<<0, 0, 0>>), (<<1, 2, 3>>)>>
        ELSE IF m = "m2" THEN <<(<<-1, 0, 0>>), (<<0, 1, 1>>)>>
        ELSE <<(<<0, 0, 0>>), (<<4, 4, 4>>)>>]

\* trimesh.bounds.corners(bounds).
Corners(b) ==
    {<<x, y, z>> : x \in {b[1][1], b[2][1]}, y \in {b[1][2], b[2][2]},
                   z \in {b[1][3], b[2][3]}}

\* np.zeros((2,3)) for no corner, else [np.min(corners, axis=0),
\* np.max(corners, axis=0)].
BoxOf(corners) ==
    IF corners = {} THEN <<(<<0, 0, 0>>), (<<0, 0, 0>>)>>
    ELSE <<[i \in 1..3 |-> CHOOSE x \in {c[i] : c \in corners} :
                              \A c \in corners : x <= c[i]],
           [i \in 1..3 |-> CHOOSE x \in {c[i] : c \in corners} :
                              \A c \in corners : x >= c[i]]>>

InSeq(x, s) == \E i \in 1..Len(s) : s[i] = x

\* list.remove(x): drops the first occurrence of x.
RECURSIVE ListRemove(_, _)
ListRemove(s, x) ==
    IF s = <<>> THEN <<>>
    ELSE IF Head(s) = x THEN Tail(s)
    ELSE <<Head(s)>> \o ListRemove(Tail(s), x)

VARIABLES
    scene,          \* the Scene object's fields
    children,       \* Node.children of every node
    matrix,         \* Node.matrix of every node
    attach,         \* Node.mesh, Node.camera, Node.light and Node.name of every node
    last,           \* the latest call on the scene and how it ended
    calls,          \* the number of calls made so far
    renderer,       \* the Renderer object's fields
    gpu,            \* the objects alive in the OpenGL context, by kind
    primitives,     \* Mesh.primitives of every mesh
    material,       \* Primitive.material.baseColorTexture of every primitive
    shadow_texture, \* whether Light.shadow_texture is set, for every light
    glerr,          \* the misuses of OpenGL handles made so far
    rlast,          \* the latest call on the renderer, None after any other call
    viewer,         \* the Viewer object's fields
    render_lock,    \* Viewer.render_lock: the thread that owns it, and how often
    pc,             \* where the viewer thread and the application thread are
    look,           \* the colours and alpha settings of primitives, materials, textures
    shape,          \* the shapes of the per-vertex attributes of a primitive
    clip,           \* znear and zfar of a perspective camera
    depth,          \* the latest readback of a depth buffer
    order,          \* the latest call of Renderer._sorted_mesh_nodes
    budget,         \* the latest call of Renderer._compute_max_n_lights
    programs,       \* a ShaderProgramCache, its programs and the requests made
    trs             \* translation, rotation, scale and matrix of one Node

sceneState == <<scene, children, matrix, attach, last>>
fnVars == <<order, budget, programs, trs>>
objVars == <<look, shape, clip, depth, fnVars>>
sceneVars == <<sceneState, calls, objVars>>
rendVars == <<renderer, gpu, primitives, material, shadow_texture, glerr, rlast>>
viewVars == <<viewer, render_lock, pc>>
vars == <<sceneVars, rendVars, viewVars>>

\* The number of calls a behaviour makes on the scene.
MaxCalls == 4

(***************************************************************************)
(* The transform tree, a networkx DiGraph: the nodes it holds beside       *)
(* 'world' and, per node, its successors in insertion order.               *)
(***************************************************************************)
EmptyGraph == [nodes |-> {}, adj |-> [n \in Nodes |-> <<>>]]

GraphAddNode(g, n) == [g EXCEPT !.nodes = @ \cup {n}]

GraphAddEdge(g, u, v) ==
    [nodes |-> g.nodes \cup {u} \cup ({v} \cap Nodes),
     adj |-> [g.adj EXCEPT ![u] = IF InSeq(v, @) THEN @ ELSE Append(@, v)]]

GraphRemoveNode(g, n) ==
    [nodes |-> g.nodes \ {n},
     adj |-> [m \in Nodes |-> IF m = n THEN <<>> ELSE ListRemove(g.adj[m], n)]]

\* Scene.__init__ with nodes=None, and Scene.clear.
EmptyScene ==
    [nodes |-> {},
     name_to_nodes |-> [k \in Names |-> {}],
     obj_to_nodes |-> [o \in Objects |-> {}],
     obj_name_to_nodes |-> [k \in Names |-> {}],
     mesh_nodes |-> {},
     point_light_nodes |-> {},
     spot_light_nodes |-> {},
     directional_light_nodes |-> {},
     camera_nodes |-> {},
     main_camera_node |-> None,
     bounds |-> {},
     digraph |-> EmptyGraph,
     path_cache |-> [n \in Nodes |-> <<>>]]

\* The objects of a node in the order [node.mesh, node.camera, node.light].
NodeObjs(n) == {attach.mesh[n], attach.camera[n], attach.light[n]} \ {None}

\* Scene.add_node, the part that enters the node in the sets and maps.
Register(sc, node) ==
    [sc EXCEPT
        !.nodes = @ \cup {node},
        !.name_to_nodes = [k \in Names |->
            IF attach.name[node] = k THEN @[k] \cup {node} ELSE @[k]],
        !.obj_to_nodes = [o \in Objects |->
            IF o \in NodeObjs(node) THEN @[o] \cup {node} ELSE @[o]],
        !.obj_name_to_nodes = [k \in Names |->
            IF \E o \in NodeObjs(node) : ObjName(o) = k
            THEN @[k] \cup {node} ELSE @[k]],
        !.mesh_nodes = IF attach.mesh[node] # None THEN @ \cup {node} ELSE @,
        !.point_light_nodes =
            IF attach.light[node] \in PointLights THEN @ \cup {node} ELSE @,
        !.spot_light_nodes =
            IF attach.light[node] \in SpotLights THEN @ \cup {node} ELSE @,
        !.directional_light_nodes =
            IF attach.light[node] \in DirectionalLights THEN @ \cup {node} ELSE @,
        !.camera_nodes = IF attach.camera[node] # None THEN @ \cup {node} ELSE @,
        !.main_camera_node =
            IF attach.camera[node] # None /\ @ = None THEN node ELSE @]

\* A call in progress: the scene, the children lists and the exception raised.
Raise(w, e) == [w EXCEPT !.exc = e]

RECURSIVE add_node(_, _, _)
RECURSIVE add_children(_, _, _)

\* Scene.add_node(node, parent_node).
add_node(w, node, parent_node) ==
    IF node \in w.sc.nodes THEN Raise(w, "ValueError")
    ELSE
    LET w1 == [w EXCEPT !.sc = Register(w.sc, node)] IN
    IF parent_node # None /\ parent_node \notin w1.sc.nodes
    THEN Raise(w1, "ValueError")
    ELSE
    LET par == IF parent_node = None THEN World ELSE parent_node
        ch1 == IF parent_node # None /\ ~InSeq(node, w1.ch[parent_node])
               THEN [w1.ch EXCEPT ![parent_node] = Append(@, node)]
               ELSE w1.ch
        w2 == [w1 EXCEPT
                  !.ch = ch1,
                  !.sc.digraph = GraphAddEdge(GraphAddNode(@, node), node, par)]
        w3 == add_children(w2, node, 1)
    IN  IF w3.exc # None THEN w3
        ELSE [w3 EXCEPT !.sc.path_cache = [n \in Nodes |-> <<>>],
                        !.sc.bounds = {}]

\* A loop that adds no child: with it in the place of add_children,
\* C12_AddNodeInsertsSubtree fails.
add_no_children(w, node, i) == w

\* The loop 'for child in node.children: self.add_node(child, node)'.
add_children(w, node, i) ==
    IF i > Len(w.ch[node]) THEN w
    ELSE LET w1 == add_node(w, w.ch[node][i], node)
         IN  IF w1.exc # None THEN w1 ELSE add_children(w1, node, i + 1)

\* next(iter(s)) for a set s that iterates in the order ord.
RECURSIVE First(_, _)
First(s, ord) == IF Head(ord) \in s THEN Head(ord) ELSE First(s, Tail(ord))

\* The orders in which a Python set of nodes may iterate.
Orders == {o \in [1..Cardinality(Nodes) -> Nodes] : \A n \in Nodes : InSeq(n, o)}

\* set.remove(node) on one entry of a map of sets; an emptied entry is popped.
MapRemove(w, field, key, node) ==
    IF node \in w.sc[field][key]
    THEN [w EXCEPT !.sc[field][key] = @ \ {node}]
    ELSE Raise(w, "KeyError")

\* set.remove(node) on one of the category sets.
SetRemove(w, field, node) ==
    IF node \in w.sc[field]
    THEN [w EXCEPT !.sc[field] = @ \ {node}]
    ELSE Raise(w, "KeyError")

\* Scene._remove_node, the loop 'for obj in [node.mesh, node.camera, node.light]'.
RECURSIVE unregister_objs(_, _, _)
unregister_objs(w, node, objs) ==
    IF objs = <<>> THEN w
    ELSE IF Head(objs) = None THEN unregister_objs(w, node, Tail(objs))
    ELSE
    LET obj == Head(objs)
        w1 == MapRemove(w, "obj_to_nodes", obj, node)
        w2 == IF w1.exc = None /\ ObjName(obj) # None
              THEN MapRemove(w1, "obj_name_to_nodes", ObjName(obj), node)
              ELSE w1
    IN  IF w2.exc # None THEN w2 ELSE unregister_objs(w2, node, Tail(objs))

\* A removal that picks a main camera anew whenever a camera node leaves: with
\* it in the place of unregister_sets, C21_RemoveKeepsMainCamera fails.
unregister_sets_any(w, node, ord) ==
    LET w1 == IF attach.mesh[node] # None
              THEN SetRemove(w, "mesh_nodes", node) ELSE w
        w2 == IF w1.exc = None /\ attach.light[node] \in PointLights
              THEN SetRemove(w1, "point_light_nodes", node) ELSE w1
        w3 == IF w2.exc = None /\ attach.light[node] \in SpotLights
              THEN SetRemove(w2, "spot_light_nodes", node) ELSE w2
        w4 == IF w3.exc = None /\ attach.light[node] \in DirectionalLights
              THEN SetRemove(w3, "directional_light_nodes", node) ELSE w3
        w5 == IF w4.exc = None /\ attach.camera[node] # None
              THEN SetRemove(w4, "camera_nodes", node) ELSE w4
    IN  IF w5.exc = None /\ attach.camera[node] # None
        THEN [w5 EXCEPT !.sc.main_camera_node =
                 IF w5.sc.camera_nodes # {}
                 THEN First(w5.sc.camera_nodes, ord) ELSE None]
        ELSE w5

\* Scene._remove_node, the part that updates the category sets.
unregister_sets(w, node, ord) ==
    LET w1 == IF attach.mesh[node] # None
              THEN SetRemove(w, "mesh_nodes", node) ELSE w
        w2 == IF w1.exc = None /\ attach.light[node] \in PointLights
              THEN SetRemove(w1, "point_light_nodes", node) ELSE w1
        w3 == IF w2.exc = None /\ attach.light[node] \in SpotLights
              THEN SetRemove(w2, "spot_light_nodes", node) ELSE w2
        w4 == IF w3.exc = None /\ attach.light[node] \in DirectionalLights
              THEN SetRemove(w3, "directional_light_nodes", node) ELSE w3
        w5 == IF w4.exc = None /\ attach.camera[node] # None
              THEN SetRemove(w4, "camera_nodes", node) ELSE w4
    IN  IF w5.exc = None /\ attach.camera[node] # None
           /\ w5.sc.main_camera_node = node
        THEN [w5 EXCEPT !.sc.main_camera_node =
                 IF w5.sc.camera_nodes # {}
                 THEN First(w5.sc.camera_nodes, ord) ELSE None]
        ELSE w5

RECURSIVE remove_node_rec(_, _, _)
RECURSIVE remove_children(_, _, _, _)

\* Scene._remove_node(node).
remove_node_rec(w, node, ord) ==
    IF node \notin w.sc.nodes THEN Raise(w, "KeyError")
    ELSE
    LET w1 == remove_children([w EXCEPT !.sc.nodes = @ \ {node}], node, 1, ord) IN
    IF w1.exc # None THEN w1
    ELSE IF node \notin w1.sc.digraph.nodes THEN Raise(w1, "NetworkXError")
    ELSE
    LET w2 == [w1 EXCEPT !.sc.digraph = GraphRemoveNode(@, node)]
        nm == attach.name[node]
        w3 == IF nm # None /\ w2.sc.name_to_nodes[nm] # {}
              THEN MapRemove(w2, "name_to_nodes", nm, node)
              ELSE w2
        w4 == IF w3.exc # None THEN w3
              ELSE unregister_objs(w3, node,
                       <<attach.mesh[node], attach.camera[node], attach.light[node]>>)
    IN  IF w4.exc # None THEN w4 ELSE unregister_sets(w4, node, ord)

\* The loop 'for child in node.children: self._remove_node(child)'.
remove_children(w, node, i, ord) ==
    IF i > Len(w.ch[node]) THEN w
    ELSE LET w1 == remove_node_rec(w, w.ch[node][i], ord)
         IN  IF w1.exc # None THEN w1 ELSE remove_children(w1, node, i + 1, ord)

\* Scene.remove_node(node).
remove_node(w, node, ord) ==
    IF node \notin w.sc.digraph.nodes THEN Raise(w, "NetworkXError")
    ELSE IF w.sc.digraph.adj[node] = <<>> THEN Raise(w, "IndexError")
    ELSE
    LET parent == w.sc.digraph.adj[node][1]
        w1 == remove_node_rec(w, node, ord)
    IN  IF w1.exc # None THEN w1
        ELSE IF parent \in Nodes /\ ~InSeq(node, w1.ch[parent])
        THEN Raise(w1, "ValueError")
        ELSE [w1 EXCEPT
                 !.ch = IF parent \in Nodes
                        THEN [@ EXCEPT ![parent] = ListRemove(@, node)] ELSE @,
                 !.sc.path_cache = [n \in Nodes |-> <<>>],
                 !.sc.bounds = {}]

\* The paths of at most fuel nodes from node to 'world' in the transform tree,
\* each written without its last element 'world'.
RECURSIVE Paths(_, _, _)
Paths(g, node, fuel) ==
    IF fuel = 0 THEN {}
    ELSE (IF InSeq(World, g.adj[node]) THEN {<<node>>} ELSE {})
         \cup UNION {{<<node>> \o p : p \in Paths(g, g.adj[node][i], fuel - 1)} :
                        i \in {j \in 1..Len(g.adj[node]) : g.adj[node][j] \in Nodes}}

PathsTo(g, node) == Paths(g, node, Cardinality(Nodes))

\* nx.shortest_path(self._digraph, node, 'world'): a path with the fewest edges.
Shortest(ps) == {p \in ps : \A q \in ps : Len(p) <= Len(q)}

ShortestPaths(g, node) == Shortest(PathsTo(g, node))

\* Scene.get_pose, the loop 'for n in path[:-1]: pose = np.dot(n.matrix, pose)'.
RECURSIVE PathPose(_, _)
PathPose(path, pose) ==
    IF path = <<>> THEN pose
    ELSE PathPose(Tail(path), Dot(matrix[Head(path)], pose))

\* Scene.bounds, the computation: the box of the corners of the bounds of the
\* mesh of every mesh node, each moved by the pose of its node.
compute_bounds(sc) ==
    BoxOf(UNION {{Apply(PathPose(sc.path_cache[n], Eye), c) :
                     c \in Corners(MeshBounds[attach.mesh[n]])} :
                 n \in sc.mesh_nodes})

(***************************************************************************)
(* The calls an application makes on the scene.                            *)
(***************************************************************************)
Call(sc, ch) == [sc |-> sc, ch |-> ch, exc |-> None]

\* Scene.add_node(node, parent_node); Scene.add is the same call on a new node.
AddNode(node, parent_node) ==
    LET w == add_node(Call(scene, children), node, parent_node) IN
    /\ scene' = w.sc
    /\ children' = w.ch
    /\ last' = [op |-> "add_node", node |-> node, arg |-> parent_node,
                exc |-> w.exc, ret |-> None]
    /\ UNCHANGED <<matrix, attach>>

\* Scene.remove_node(node).
RemoveNode(node, ord) ==
    LET w == remove_node(Call(scene, children), node, ord) IN
    /\ scene' = w.sc
    /\ children' = w.ch
    /\ last' = [op |-> "remove_node", node |-> node, arg |-> None,
                exc |-> w.exc, ret |-> None]
    /\ UNCHANGED <<matrix, attach>>

\* Scene.clear().
Clear ==
    /\ scene' = EmptyScene
    /\ last' = [op |-> "clear", node |-> None, arg |-> None,
                exc |-> None, ret |-> None]
    /\ UNCHANGED <<children, matrix, attach>>

\* The setter of Scene.main_camera_node.
SetMainCameraNode(value) ==
    /\ IF value \notin scene.nodes
       THEN /\ scene' = scene
            /\ last' = [op |-> "main_camera_node", node |-> value, arg |-> None,
                        exc |-> "ValueError", ret |-> None]
       ELSE /\ scene' = [scene EXCEPT !.main_camera_node = value]
            /\ last' = [op |-> "main_camera_node", node |-> value, arg |-> None,
                        exc |-> None, ret |-> None]
    /\ UNCHANGED <<children, matrix, attach>>

\* A get_pose without its first check: with it in the place of GetPose,
\* C22_PoseOfAbsentNodeRaises fails.
GetPoseUnchecked(node) ==
    /\ IF scene.path_cache[node] # <<>>
       THEN /\ scene' = scene
            /\ last' = [op |-> "get_pose", node |-> node, arg |-> None,
                        exc |-> None,
                        ret |-> PathPose(scene.path_cache[node], Eye)]
       ELSE IF node \notin scene.digraph.nodes
       THEN /\ scene' = scene
            /\ last' = [op |-> "get_pose", node |-> node, arg |-> None,
                        exc |-> "NodeNotFound", ret |-> None]
       ELSE IF PathsTo(scene.digraph, node) = {}
       THEN /\ scene' = scene
            /\ last' = [op |-> "get_pose", node |-> node, arg |-> None,
                        exc |-> "NetworkXNoPath", ret |-> None]
       ELSE \E path \in ShortestPaths(scene.digraph, node) :
            /\ scene' = [scene EXCEPT !.path_cache[node] = path]
            /\ last' = [op |-> "get_pose", node |-> node, arg |-> None,
                        exc |-> None, ret |-> PathPose(path, Eye)]
    /\ UNCHANGED <<children, matrix, attach>>

\* Scene.get_pose(node).
GetPose(node) ==
    /\ IF node \notin scene.nodes
       THEN /\ scene' = scene
            /\ last' = [op |-> "get_pose", node |-> node, arg |-> None,
                        exc |-> "ValueError", ret |-> None]
       ELSE IF scene.path_cache[node] # <<>>
       THEN /\ scene' = scene
            /\ last' = [op |-> "get_pose", node |-> node, arg |-> None,
                        exc |-> None,
                        ret |-> PathPose(scene.path_cache[node], Eye)]
       ELSE IF node \notin scene.digraph.nodes
       THEN /\ scene' = scene
            /\ last' = [op |-> "get_pose", node |-> node, arg |-> None,
                        exc |-> "NodeNotFound", ret |-> None]
       ELSE IF PathsTo(scene.digraph, node) = {}
       THEN /\ scene' = scene
            /\ last' = [op |-> "get_pose", node |-> node, arg |-> None,
                        exc |-> "NetworkXNoPath", ret |-> None]
       ELSE \E path \in ShortestPaths(scene.digraph, node) :
            /\ scene' = [scene EXCEPT !.path_cache[node] = path]
            /\ last' = [op |-> "get_pose", node |-> node, arg |-> None,
                        exc |-> None, ret |-> PathPose(path, Eye)]
    /\ UNCHANGED <<children, matrix, attach>>

\* Scene.get_nodes(node, name, obj, obj_name) on the scene sc.
get_nodes(sc, node, name, obj, obj_name) ==
    IF node # None
    THEN IF node \in sc.nodes THEN {node} ELSE {}
    ELSE
    LET nodes1 == IF name # None THEN sc.nodes \cap sc.name_to_nodes[name]
                  ELSE sc.nodes
        nodes2 == IF obj # None THEN nodes1 \cap sc.obj_to_nodes[obj] ELSE nodes1
    IN  IF obj_name # None THEN nodes2 \cap sc.obj_name_to_nodes[obj_name]
        ELSE nodes2

GetNodes(node, name, obj, obj_name) ==
    /\ last' = [op |-> "get_nodes", node |-> node, arg |-> <<name, obj, obj_name>>,
                exc |-> None, ret |-> get_nodes(scene, node, name, obj, obj_name)]
    /\ UNCHANGED <<scene, children, matrix, attach>>

\* Scene.set_pose(node, pose).
SetPose(node, pose) ==
    /\ IF node \notin scene.nodes
       THEN /\ UNCHANGED <<scene, matrix>>
            /\ last' = [op |-> "set_pose", node |-> node, arg |-> None,
                        exc |-> "ValueError", ret |-> None]
       ELSE /\ matrix' = [matrix EXCEPT ![node] = pose]
            /\ scene' = IF attach.mesh[node] # None
                        THEN [scene EXCEPT !.bounds = {}] ELSE scene
            /\ last' = [op |-> "set_pose", node |-> node, arg |-> None,
                        exc |-> None, ret |-> None]
    /\ UNCHANGED <<children, attach>>

(***************************************************************************)
(* Render flags (constants.py).  A flag word is written as the set of the  *)
(* positions of its 1 bits, bit 0 being the lowest: '&' is then the        *)
(* intersection, '|' the union, and 0 the empty set.                       *)
(***************************************************************************)
BitAnd(a, b) == a \cap b

BitOr(a, b) == a \cup b

\* bool(flags & F).
Has(flags, F) == BitAnd(flags, F) # {}

\* _flag_value(i): 0 for i = 0, and 2 ** (i - 1) otherwise.
_flag_value(i) == IF i = 0 THEN {} ELSE {i - 1}

NONE == _flag_value(0)
NO_LIGHTS == _flag_value(1)
NO_MATERIALS == _flag_value(2)
DEPTH_ONLY == BitOr(BitOr(NO_LIGHTS, NO_MATERIALS), _flag_value(3))
OFFSCREEN == _flag_value(4)
FLIP_WIREFRAME == _flag_value(5)
ALL_WIREFRAME == _flag_value(6)
ALL_SOLID == _flag_value(7)
SHADOWS_DIRECTIONAL == _flag_value(8)
SHADOWS_POINT == _flag_value(9)
SHADOWS_SPOT == _flag_value(10)
SHADOWS_ALL == BitOr(BitOr(SHADOWS_DIRECTIONAL, SHADOWS_POINT), SHADOWS_SPOT)
VERTEX_NORMALS == _flag_value(11)
FACE_NORMALS == _flag_value(12)
SKIP_CULL_FACES == _flag_value(13)
RGBA == _flag_value(14)
ALL_CAM_COORDS == BitOr(BitOr(NO_LIGHTS, NO_MATERIALS), _flag_value(15))

\* renderer.py reads RenderFlags.FLAT and RenderFlags.SEG, which constants.py
\* does not define: they are taken to be two further flag bits, as the flat and
\* segmentation modes of the specification.
FLAT == _flag_value(16)
SEG == _flag_value(17)

\* The named flags of RenderFlags but the union SHADOWS_ALL.
NamedFlags ==
    {NONE, NO_LIGHTS, NO_MATERIALS, DEPTH_ONLY, OFFSCREEN, FLIP_WIREFRAME,
     ALL_WIREFRAME, ALL_SOLID, SHADOWS_DIRECTIONAL, SHADOWS_POINT, SHADOWS_SPOT,
     VERTEX_NORMALS, FACE_NORMALS, SKIP_CULL_FACES, RGBA, ALL_CAM_COORDS, FLAT, SEG}

\* ProgramFlags.
PF_NONE == {}
USE_MATERIAL == {"USE_MATERIAL"}

(***************************************************************************)
(* The objects a renderer puts in the OpenGL context.  gpu holds, by kind, *)
(* the objects that are allocated: the vertex arrays and buffers of a      *)
(* primitive under the primitive, a texture under the Texture, a program   *)
(* under its cache key, the main framebuffers and renderbuffers under      *)
(* "main" and the shadow framebuffer under "shadow".  A Primitive, Texture *)
(* or ShaderProgram holds a handle (_vaid, _texid, _program_id) exactly    *)
(* while its object is allocated, since the only code that deletes the     *)
(* object also resets the handle.                                          *)
(***************************************************************************)
Prims == {"p1", "p2", "p3"}
Textures == {"t1", "t2"}

NoGpu == [prims |-> {}, texs |-> {}, shadow |-> {}, progs |-> {}, fbs |-> {}]

NoGlErr == [double_delete |-> FALSE, use_after_delete |-> FALSE]

\* glGen*, glBufferData, glTexImage2D, compileProgram: x becomes allocated.
GlAlloc(r, kind, x) ==
    [r EXCEPT !.gpu[kind] = @ \cup {x}, !.allocs = @ + 1]

\* glDelete* on the handle of x.
GlDelete(r, kind, x) ==
    IF x \in r.gpu[kind]
    THEN [r EXCEPT !.gpu[kind] = @ \ {x}, !.frees = @ + 1]
    ELSE [r EXCEPT !.err.double_delete = TRUE, !.frees = @ + 1]

\* glBind*, glUseProgram, glFramebufferTexture2D on the handle of x.  On a handle
\* that is not allocated the context reports an error, which PyOpenGL raises when
\* its error checking is on (r.strict).
GlUse(r, kind, x) ==
    IF x \in r.gpu[kind] THEN r
    ELSE IF r.strict
    THEN [r EXCEPT !.err.use_after_delete = TRUE, !.exc = "GLError"]
    ELSE [r EXCEPT !.err.use_after_delete = TRUE]

\* The sequences that list the elements of S once each: the orders in which a
\* Python set S may iterate.
Perms(S) == {s \in [1..Cardinality(S) -> S] : \A x \in S : InSeq(x, s)}

\* Primitive._add_to_context.
prim_add_to_context(r, p) ==
    IF r.exc # None THEN r
    ELSE IF p \in r.gpu.prims THEN Raise(r, "ValueError")
    ELSE GlAlloc(r, "prims", p)

\* Primitive.delete.
prim_delete(r, p) == IF p \in r.gpu.prims THEN GlDelete(r, "prims", p) ELSE r

\* Primitive._bind.
prim_bind(r, p) ==
    IF r.exc # None THEN r
    ELSE IF p \notin r.gpu.prims THEN Raise(r, "ValueError")
    ELSE r

\* Texture._add_to_context, for a mesh texture ("texs") or a shadow texture.
tex_add_to_context(r, kind, t) ==
    IF r.exc # None THEN r
    ELSE IF t \in r.gpu[kind] THEN Raise(r, "ValueError")
    ELSE GlAlloc(r, kind, t)

\* Texture.delete.
tex_delete(r, kind, t) == IF t \in r.gpu[kind] THEN GlDelete(r, kind, t) ELSE r

\* Texture._bind and Texture._bind_as_depth_attachment.
tex_bind(r, kind, t) == IF r.exc # None THEN r ELSE GlUse(r, kind, t)

\* A sequence of the elements of S, for the loops whose steps commute.
RECURSIVE SeqOf(_)
SeqOf(S) ==
    IF S = {} THEN <<>>
    ELSE LET x == CHOOSE x \in S : TRUE IN <<x>> \o SeqOf(S \ {x})

\* A get_pose that accepts every node, one of no scene included, and reads no
\* path: with it in the place of get_pose, C8_NoCameraRenderRaises fails.
get_pose_unchecked(r, node) == r

\* Scene.get_pose(node) as the renderer calls it: the path is cached.
get_pose(r, node) ==
    IF r.exc # None THEN r
    ELSE IF node \notin r.sc.nodes THEN Raise(r, "ValueError")
    ELSE IF r.sc.path_cache[node] # <<>> THEN r
    ELSE IF node \notin r.sc.digraph.nodes THEN Raise(r, "NodeNotFound")
    ELSE IF PathsTo(r.sc.digraph, node) = {} THEN Raise(r, "NetworkXNoPath")
    ELSE [r EXCEPT !.sc.path_cache[node] =
             CHOOSE p \in ShortestPaths(r.sc.digraph, node) : TRUE]

\* get_pose for the nodes of a sequence in turn.
RECURSIVE get_poses(_, _)
get_poses(r, seq) ==
    IF seq = <<>> \/ r.exc # None THEN r
    ELSE get_poses(get_pose(r, Head(seq)), Tail(seq))

\* Scene.meshes and Scene.lights.
SceneMeshes(sc) == {attach.mesh[n] : n \in sc.mesh_nodes}
LightNodes(sc) ==
    sc.point_light_nodes \cup sc.spot_light_nodes \cup sc.directional_light_nodes
SceneLights(sc) == {attach.light[n] : n \in LightNodes(sc)}

\* Scene.bounds, read through Scene.scale and Scene.centroid: computed from the
\* poses of the mesh nodes and cached.
cache_bounds(r) ==
    IF r.exc # None THEN r ELSE [r EXCEPT !.sc.bounds = {compute_bounds(r.sc)}]

scene_bounds(r) ==
    IF r.exc # None \/ r.sc.bounds # {} THEN r
    ELSE cache_bounds(get_poses(r, SeqOf(r.sc.mesh_nodes)))

\* Renderer.__init__(viewport_width, viewport_height).  main_fb and shadow_fb say
\* whether _main_fb and _shadow_fb hold a handle; a dimension of 0 is None.
NewRenderer(w, h) ==
    [viewport_width |-> w,
     viewport_height |-> h,
     main_fb |-> FALSE,
     main_fb_dims |-> <<0, 0>>,
     shadow_fb |-> FALSE,
     program_cache |-> {},
     meshes |-> {},
     mesh_textures |-> {},
     shadow_textures |-> {}]

\* 'for p in mesh.primitives: p._add_to_context()'.
RECURSIVE add_primitives(_, _)
add_primitives(r, seq) ==
    IF seq = <<>> \/ r.exc # None THEN r
    ELSE add_primitives(prim_add_to_context(r, Head(seq)), Tail(seq))

\* Renderer._update_context, 'for mesh in scene_meshes - self._meshes'.
RECURSIVE add_meshes(_, _)
add_meshes(r, seq) ==
    IF seq = <<>> \/ r.exc # None THEN r
    ELSE add_meshes(add_primitives(r, primitives[Head(seq)]), Tail(seq))

\* 'for p in mesh.primitives: p.delete()'.
RECURSIVE delete_primitives(_, _)
delete_primitives(r, seq) ==
    IF seq = <<>> THEN r
    ELSE delete_primitives(prim_delete(r, Head(seq)), Tail(seq))

\* Renderer._update_context, 'for mesh in self._meshes - scene_meshes', and
\* Renderer.delete, 'for mesh in self._meshes'.
RECURSIVE delete_meshes(_, _)
delete_meshes(r, seq) ==
    IF seq = <<>> THEN r
    ELSE delete_meshes(delete_primitives(r, primitives[Head(seq)]), Tail(seq))

\* 'for texture in ...: texture._add_to_context()'.
RECURSIVE add_textures(_, _, _)
add_textures(r, kind, seq) ==
    IF seq = <<>> \/ r.exc # None THEN r
    ELSE add_textures(tex_add_to_context(r, kind, Head(seq)), kind, Tail(seq))

\* 'for texture in ...: texture.delete()'.
RECURSIVE delete_textures(_, _, _)
delete_textures(r, kind, seq) ==
    IF seq = <<>> THEN r
    ELSE delete_textures(tex_delete(r, kind, Head(seq)), kind, Tail(seq))

\* 'for m in scene_meshes: for p in m.primitives: mesh_textures |= p.material.textures'.
MeshTextures(meshes) ==
    UNION {{material[primitives[m][i]] : i \in 1..Len(primitives[m])} : m \in meshes}
    \ {None}

\* Whether the flags make the light l cast shadows.
ShadowActive(l, flags) ==
    \/ l \in DirectionalLights /\ Has(flags, SHADOWS_DIRECTIONAL)
    \/ l \in PointLights /\ Has(flags, SHADOWS_POINT)
    \/ l \in SpotLights /\ Has(flags, SHADOWS_SPOT)

\* Renderer._update_context, one turn of 'for l in scene.lights':
\* light._generate_shadow_texture() where a shadow texture is needed.
prepare_shadow_texture(r, l, flags) ==
    IF ShadowActive(l, flags) /\ ~r.st[l]
    THEN IF l \in PointLights THEN Raise(r, "NotImplementedError")
         ELSE [r EXCEPT !.st[l] = TRUE]
    ELSE r

\* Renderer._update_context, 'for l in scene.lights'.
RECURSIVE prepare_shadow_textures(_, _, _)
prepare_shadow_textures(r, seq, flags) ==
    IF seq = <<>> \/ r.exc # None THEN r
    ELSE prepare_shadow_textures(prepare_shadow_texture(r, Head(seq), flags),
                                 Tail(seq), flags)

\* Renderer._update_context, 'Remove old meshes from context' and
\* 'self._meshes = scene_meshes.copy()'.
remove_old_meshes(r) ==
    IF r.exc # None THEN r
    ELSE [delete_meshes(r, SeqOf(r.rd.meshes \ SceneMeshes(r.sc)))
             EXCEPT !.rd.meshes = SceneMeshes(r.sc)]

\* Renderer._update_context, 'Remove old textures from context' and
\* 'self._mesh_textures = mesh_textures.copy()'.
remove_old_textures(r) ==
    IF r.exc # None THEN r
    ELSE [delete_textures(r, "texs",
                          SeqOf(r.rd.mesh_textures \ MeshTextures(SceneMeshes(r.sc))))
             EXCEPT !.rd.mesh_textures = MeshTextures(SceneMeshes(r.sc))]

\* Renderer._update_context, the set shadow_textures: the lights of the scene
\* that hold a shadow texture.
ShadowTextures(r) == {l \in SceneLights(r.sc) : r.st[l]}

\* Renderer._update_context, 'Remove old textures from context' and
\* 'self._shadow_textures = shadow_textures.copy()'.
remove_old_shadow_textures(r) ==
    IF r.exc # None THEN r
    ELSE [delete_textures(r, "shadow", SeqOf(r.rd.shadow_textures \ ShadowTextures(r)))
             EXCEPT !.rd.shadow_textures = ShadowTextures(r)]

\* Renderer._update_context, the shadow textures after 'for l in scene.lights'.
update_shadow_textures(r) ==
    IF r.exc # None THEN r
    ELSE remove_old_shadow_textures(
             add_textures(r, "shadow", SeqOf(ShadowTextures(r) \ r.rd.shadow_textures)))

\* Renderer._update_context(scene, flags).  o.meshes, o.textures and o.lights are
\* the orders in which the sets of new meshes, of new textures and of lights iterate.
update_context(r, flags, o) ==
    update_shadow_textures(
        prepare_shadow_textures(
            remove_old_textures(
                add_textures(remove_old_meshes(add_meshes(r, o.meshes)),
                             "texs", o.textures)),
            o.lights, flags))

\* The key of ShaderProgramCache that Renderer._get_primitive_program computes:
\* the shaders, and the defines that vary (the shadow flags, the normals flags,
\* the texture flags of the material).
ProgramKey(p, flags, program_flags) ==
    [shader |->
         IF "USE_MATERIAL" \in program_flags /\ ~Has(flags, DEPTH_ONLY)
            /\ ~Has(flags, FLAT) /\ ~Has(flags, SEG) THEN "mesh"
         ELSE IF program_flags \cap {"VERTEX_NORMALS", "FACE_NORMALS"} # {}
         THEN "vertex_normals"
         ELSE IF Has(flags, FLAT) THEN "flat"
         ELSE IF Has(flags, SEG) THEN "segmentation"
         ELSE "mesh_depth",
     shadows |-> BitAnd(flags, SHADOWS_ALL),
     normals |-> program_flags \cap {"VERTEX_NORMALS", "FACE_NORMALS"},
     tex |-> "USE_MATERIAL" \in program_flags /\ material[p] # None]

\* ShaderProgramCache.get_program and 'if not program._in_context():
\* program._add_to_context()' for the program of a key.
get_program(r, key) ==
    IF key \in r.gpu.progs
    THEN [r EXCEPT !.rd.program_cache = @ \cup {key}]
    ELSE GlAlloc([r EXCEPT !.rd.program_cache = @ \cup {key}], "progs", key)

\* Renderer._get_primitive_program followed by program._bind().
use_primitive_program(r, p, flags, program_flags) ==
    IF r.exc # None THEN r
    ELSE GlUse(get_program(r, ProgramKey(p, flags, program_flags)), "progs",
               ProgramKey(p, flags, program_flags))

\* Renderer._bind_and_draw_primitive, 'Bind mesh material': the textures of the
\* material are bound.
bind_material(r, p, flags) ==
    IF r.exc # None \/ Has(flags, DEPTH_ONLY) \/ Has(flags, SEG) \/ material[p] = None
    THEN r
    ELSE tex_bind(r, "texs", material[p])

\* Renderer._bind_and_draw_primitive, 'Render mesh': glDrawElementsInstanced or
\* glDrawArraysInstanced.
draw_call(r) == IF r.exc # None THEN r ELSE [r EXCEPT !.draws = @ + 1]

\* Renderer._bind_and_draw_primitive(primitive, pose=scene.get_pose(node), program, flags).
bind_and_draw_primitive(r, p, node, flags) ==
    draw_call(bind_material(prim_bind(get_pose(r, node), p), p, flags))

\* light._get_shadow_camera(scene.scale).
get_shadow_camera(r, light) ==
    IF r.exc # None THEN r
    ELSE IF light \in PointLights THEN Raise(r, "NotImplementedError")
    ELSE r

\* Renderer._get_light_cam_matrices(scene, light_node, flags).
get_light_cam_matrices(r, light_node) ==
    get_shadow_camera(scene_bounds(get_pose(r, light_node)), attach.light[light_node])

\* Renderer._bind_lighting, 'if not isinstance(light, PointLight)' under 'if shadow'.
bind_light_matrix(r, n) ==
    IF r.exc # None THEN r
    ELSE IF attach.light[n] \in PointLights THEN Raise(r, "NotImplementedError")
    ELSE get_light_cam_matrices(r, n)

\* The pose of a node whose path the call r has cached.
cached_pose(r, n) == PathPose(r.sc.path_cache[n], Eye)

\* 'self._bind_texture(light.shadow_texture, b + 'shadow_map', program)' for the
\* node n: the shader of n samples what the texture of its light holds.
sample_shadow_map(r, n) ==
    [tex_bind(r, "shadow", attach.light[n]) EXCEPT
         !.sampled = @ \cup {<<n, cached_pose(r, n), r.smap[attach.light[n]]>>}]

\* Renderer._bind_lighting, 'if shadow' for the light of node n.
bind_shadow_map(r, n, flags) ==
    IF r.exc # None \/ ~ShadowActive(attach.light[n], flags) THEN r
    ELSE IF ~r.st[attach.light[n]] THEN Raise(r, "AttributeError")
    ELSE bind_light_matrix(sample_shadow_map(r, n), n)

\* Renderer._bind_lighting, one turn of 'for n in light_nodes'.
bind_light(r, n, flags) == bind_shadow_map(get_pose(r, n), n, flags)

\* Renderer._bind_lighting, 'for n in light_nodes'.
RECURSIVE bind_lights(_, _, _)
bind_lights(r, seq, flags) ==
    IF seq = <<>> \/ r.exc # None THEN r
    ELSE bind_lights(bind_light(r, Head(seq), flags), Tail(seq), flags)

\* Renderer._bind_lighting(scene, program, node, flags).
bind_lighting(r, flags) == bind_lights(r, SeqOf(LightNodes(r.sc)), flags)

\* scene.get_pose(scene.main_camera_node).
main_camera_pose(r) == get_pose(r, r.sc.main_camera_node)

\* Renderer._sorted_mesh_nodes(scene): the pose of the main camera node and of
\* every mesh node is read.
sorted_mesh_nodes(r) == get_poses(main_camera_pose(r), SeqOf(r.sc.mesh_nodes))

\* Renderer._delete_main_framebuffer: the two framebuffers and four renderbuffers
\* are created and deleted together.
delete_main_framebuffer(r) ==
    IF r.rd.main_fb
    THEN [GlDelete(r, "fbs", "main") EXCEPT !.rd.main_fb = FALSE,
                                            !.rd.main_fb_dims = <<0, 0>>]
    ELSE [r EXCEPT !.rd.main_fb = FALSE, !.rd.main_fb_dims = <<0, 0>>]

\* A mismatch test that takes every framebuffer to be of another size: with it in
\* the place of main_fb_mismatch, C3_SecondRenderAllocatesNothing fails.
main_fb_stale(rd) == rd.main_fb

\* A mismatch test that compares the widths only: with it in the place of
\* main_fb_mismatch, C35_MainFramebufferFitsViewport fails.
main_fb_width_mismatch(rd) == rd.main_fb /\ rd.viewport_width # rd.main_fb_dims[1]

\* Renderer._configure_main_framebuffer, 'If mismatch with prior framebuffer'.
main_fb_mismatch(rd) ==
    \/ rd.main_fb /\ rd.viewport_width # rd.main_fb_dims[1]
    \/ rd.viewport_height # rd.main_fb_dims[2]

\* Renderer._configure_main_framebuffer, 'If framebuffer doesn't exist, create it'.
create_main_framebuffer(r) ==
    IF r.rd.main_fb THEN r
    ELSE [GlAlloc(r, "fbs", "main") EXCEPT
             !.rd.main_fb = TRUE,
             !.rd.main_fb_dims = <<r.rd.viewport_width, r.rd.viewport_height>>]

\* Renderer._configure_main_framebuffer.
configure_main_framebuffer(r) ==
    IF main_fb_mismatch(r.rd)
    THEN create_main_framebuffer(delete_main_framebuffer(r))
    ELSE create_main_framebuffer(r)

\* Renderer._configure_forward_pass_viewport(flags).
configure_forward_pass_viewport(r, flags) ==
    IF r.exc # None THEN r
    ELSE IF Has(flags, OFFSCREEN)
    THEN GlUse(configure_main_framebuffer(r), "fbs", "main")
    ELSE r

\* Renderer._configure_shadow_framebuffer.
configure_shadow_framebuffer(r) ==
    IF r.rd.shadow_fb THEN r
    ELSE [GlAlloc(r, "fbs", "shadow") EXCEPT !.rd.shadow_fb = TRUE]

\* Renderer._delete_shadow_framebuffer.
delete_shadow_framebuffer(r) ==
    IF r.rd.shadow_fb THEN GlDelete(r, "fbs", "shadow") ELSE r

\* Renderer._configure_shadow_mapping_viewport, light.shadow_texture.
\* _bind_as_depth_attachment().
bind_as_depth_attachment(r, light) ==
    IF r.exc # None THEN r
    ELSE IF ~r.st[light] THEN Raise(r, "AttributeError")
    ELSE tex_bind(r, "shadow", light)

\* Renderer._configure_shadow_mapping_viewport(light, flags).
configure_shadow_mapping_viewport(r, light) ==
    bind_as_depth_attachment(GlUse(configure_shadow_framebuffer(r), "fbs", "shadow"),
                             light)

\* Renderer._get_camera_matrices(scene).
get_camera_matrices(r) ==
    IF r.exc # None THEN r
    ELSE IF r.sc.main_camera_node = None THEN Raise(r, "ValueError")
    ELSE IF attach.camera[r.sc.main_camera_node] = None THEN Raise(r, "AttributeError")
    ELSE get_pose(r, r.sc.main_camera_node)

\* Whether a loop over the primitives of the mesh nodes has a turn.
HasPrimitives(sc) ==
    \E n \in sc.mesh_nodes :
        is_visible[attach.mesh[n]] /\ primitives[attach.mesh[n]] # <<>>

\* Renderer._read_main_framebuffer(scene, flags): the buffers it returns, in
\* 'read' the number of draw calls of this render that the buffers can show, and
\* in 'dims' their width and height, which are those of _main_fb_dims.
read_main_framebuffer(r, flags) ==
    IF GlUse(r, "fbs", "main").exc # None THEN GlUse(r, "fbs", "main")
    ELSE [GlUse(r, "fbs", "main") EXCEPT
             !.ret = IF Has(flags, DEPTH_ONLY) THEN "depth"
                     ELSE IF Has(flags, RGBA) THEN "rgba, depth"
                     ELSE "rgb, depth",
             !.read = {r.draws},
             !.dims = {r.rd.main_fb_dims}]

\* The program flags of Renderer._normals_pass.
NormalsProgramFlags(flags) ==
    (IF Has(flags, VERTEX_NORMALS) THEN {"VERTEX_NORMALS"} ELSE {})
    \cup (IF Has(flags, FACE_NORMALS) THEN {"FACE_NORMALS"} ELSE {})

\* Renderer._forward_pass, 'Next, bind the lighting'.
forward_lighting(r, flags) ==
    IF r.exc # None \/ Has(flags, DEPTH_ONLY) \/ Has(flags, FLAT) \/ Has(flags, SEG)
    THEN r
    ELSE bind_lighting(r, flags)

\* The body of 'for primitive in mesh.primitives' in Renderer._forward_pass.
forward_draw(r, node, p, flags) ==
    bind_and_draw_primitive(
        forward_lighting(
            main_camera_pose(use_primitive_program(r, p, flags, USE_MATERIAL)), flags),
        p, node, flags)

\* The body of 'for primitive in mesh.primitives' in Renderer._shadow_mapping_pass.
shadow_draw(r, node, p, flags) ==
    bind_and_draw_primitive(
        main_camera_pose(use_primitive_program(r, p, flags, PF_NONE)),
        p, node, DEPTH_ONLY)

\* The body of 'for primitive in mesh.primitives' in Renderer._normals_pass; every
\* primitive has normals.
normals_draw(r, node, p, flags) ==
    bind_and_draw_primitive(
        use_primitive_program(r, p, flags, NormalsProgramFlags(flags)),
        p, node, DEPTH_ONLY)

\* 'for primitive in mesh.primitives' in the pass named.
RECURSIVE draw_primitives(_, _, _, _, _)
draw_primitives(r, node, seq, flags, pass) ==
    IF seq = <<>> \/ r.exc # None THEN r
    ELSE draw_primitives(
             IF pass = "forward" THEN forward_draw(r, node, Head(seq), flags)
             ELSE IF pass = "shadow" THEN shadow_draw(r, node, Head(seq), flags)
             ELSE normals_draw(r, node, Head(seq), flags),
             node, Tail(seq), flags, pass)

\* 'for node in self._sorted_mesh_nodes(scene)' in the pass named: an invisible
\* mesh is skipped, and the forward pass in SEG mode skips the nodes without a
\* colour.
RECURSIVE draw_nodes(_, _, _, _, _)
draw_nodes(r, seq, flags, seg_node_map, pass) ==
    IF seq = <<>> \/ r.exc # None THEN r
    ELSE draw_nodes(
             IF \/ ~is_visible[attach.mesh[Head(seq)]]
                \/ pass = "forward" /\ Has(flags, SEG) /\ Head(seq) \notin seg_node_map
             THEN r
             ELSE draw_primitives(r, Head(seq), primitives[attach.mesh[Head(seq)]],
                                  flags, pass),
             Tail(seq), flags, seg_node_map, pass)

\* Renderer._shadow_mapping_pass, 'if program is not None': 'program' is bound by
\* the first turn of the loop over the primitives only.
unbind_program(r) ==
    IF r.exc # None THEN r
    ELSE IF ~HasPrimitives(r.sc) THEN Raise(r, "UnboundLocalError")
    ELSE r

\* Renderer._shadow_mapping_pass, the depth texture of the light of light_node
\* once it is cleared and V, P are those of light_node: it holds the view from
\* the pose of light_node.
shadow_map_from(r, light_node) ==
    IF r.exc # None THEN r
    ELSE [r EXCEPT !.smap[attach.light[light_node]] = {cached_pose(r, light_node)}]

\* Renderer._shadow_mapping_pass(scene, light_node, flags).
shadow_mapping_pass(r, light_node, flags, o) ==
    unbind_program(
        draw_nodes(
            sorted_mesh_nodes(
                shadow_map_from(
                    get_light_cam_matrices(
                        configure_shadow_mapping_viewport(r, attach.light[light_node]),
                        light_node),
                    light_node)),
            o.mesh_nodes, flags, {}, "shadow"))

\* Renderer.render, 'for ln in scene.light_nodes'.
RECURSIVE shadow_passes(_, _, _, _)
shadow_passes(r, seq, flags, o) ==
    IF seq = <<>> \/ r.exc # None THEN r
    ELSE shadow_passes(IF ShadowActive(attach.light[Head(seq)], flags)
                       THEN shadow_mapping_pass(r, Head(seq), flags, o)
                       ELSE r,
                       Tail(seq), flags, o)

\* Renderer.render, 'Render necessary shadow maps'.
shadow_maps(r, flags, o) ==
    IF r.exc # None \/ Has(flags, DEPTH_ONLY) \/ Has(flags, SEG) THEN r
    ELSE shadow_passes(r, SeqOf(LightNodes(r.sc)), flags, o)

\* Renderer._forward_pass, 'if flags & RenderFlags.OFFSCREEN: return
\* self._read_main_framebuffer(scene, flags)'.
forward_pass_return(r, flags) ==
    IF r.exc # None \/ ~Has(flags, OFFSCREEN) THEN r
    ELSE read_main_framebuffer(r, flags)

\* Renderer._forward_pass(scene, flags, seg_node_map).
forward_pass(r, flags, seg_node_map, o) ==
    forward_pass_return(
        draw_nodes(
            sorted_mesh_nodes(
                get_camera_matrices(configure_forward_pass_viewport(r, flags))),
            o.mesh_nodes, flags, seg_node_map, "forward"),
        flags)

\* Renderer._normals_pass(scene, flags).
normals_pass(r, flags, o) ==
    draw_nodes(
        sorted_mesh_nodes(get_camera_matrices(configure_forward_pass_viewport(r, flags))),
        o.mesh_nodes, flags, {}, "normals")

\* Renderer.render, 'If necessary, make normals pass'.
normals(r, flags, o) ==
    IF r.exc # None \/ ~Has(flags, BitOr(VERTEX_NORMALS, FACE_NORMALS)) THEN r
    ELSE normals_pass(r, flags, o)

\* Renderer.render, 'return retval': nothing is returned when a pass has raised.
render_return(r) == IF r.exc # None THEN [r EXCEPT !.ret = None] ELSE r

\* Renderer.render(scene, flags, seg_node_map).
render(r, flags, seg_node_map, o) ==
    render_return(
        normals(
            forward_pass(shadow_maps(update_context(r, flags, o), flags, o),
                         flags, seg_node_map, o),
            flags, o))

\* ShaderProgramCache.clear, 'for key in self._program_cache'.
RECURSIVE delete_programs(_, _)
delete_programs(r, seq) ==
    IF seq = <<>> THEN r
    ELSE delete_programs(IF Head(seq) \in r.gpu.progs
                         THEN GlDelete(r, "progs", Head(seq)) ELSE r, Tail(seq))

\* Renderer.delete, 'self._program_cache.clear()'.
clear_program_cache(r) ==
    [delete_programs(r, SeqOf(r.rd.program_cache)) EXCEPT !.rd.program_cache = {}]

\* Renderer.delete, 'self._meshes = set()' and the two sets of textures.
forget_all(r) ==
    [r EXCEPT !.rd.meshes = {}, !.rd.mesh_textures = {}, !.rd.shadow_textures = {}]

\* Renderer.delete().
delete(r) ==
    delete_shadow_framebuffer(
        delete_main_framebuffer(
            forget_all(
                delete_textures(
                    delete_textures(
                        delete_meshes(clear_program_cache(r), SeqOf(r.rd.meshes)),
                        "texs", SeqOf(r.rd.mesh_textures)),
                    "shadow", SeqOf(r.rd.shadow_textures)))))

(***************************************************************************)
(* The calls an application makes on the renderer, and its edits of the    *)
(* meshes, materials and viewport between them.                            *)
(***************************************************************************)
RCall(strict) ==
    [rd |-> renderer, gpu |-> gpu, st |-> shadow_texture, sc |-> scene,
     allocs |-> 0, frees |-> 0, draws |-> 0, read |-> {}, dims |-> {},
     smap |-> [l \in Lights |-> {}], sampled |-> {},
     err |-> glerr,
     exc |-> None, ret |-> None, strict |-> strict]

\* The orders of a call that iterates no set.
NoOrders ==
    [strict |-> FALSE, meshes |-> <<>>, textures |-> <<>>, lights |-> <<>>,
     mesh_nodes |-> <<>>]

\* The last call on the renderer, if nothing was edited since: its arguments and
\* orders, what it raised and returned, how many draw calls, allocations and
\* releases it made, and whether it repeats the call before it.
NoRender ==
    [op |-> None, flags |-> NONE, seg_node_map |-> {}, o |-> NoOrders,
     repeat |-> FALSE, exc |-> None, ret |-> None,
     draws |-> 0, read |-> {}, dims |-> {}, sampled |-> {},
     allocs |-> 0, frees |-> 0]

\* The elements of a sequence.
Range(seq) == {seq[i] : i \in 1..Len(seq)}

\* Two calls in one process on an unchanged scene: PyOpenGL checks errors in both
\* or in neither, and a set that holds the same elements iterates in the same
\* order.
SameProcess(o1, o2) ==
    /\ o1.strict = o2.strict
    /\ \A f \in {"meshes", "textures", "lights", "mesh_nodes"} :
           Range(o1[f]) = Range(o2[f]) => o1[f] = o2[f]

\* Whether render(scene, flags, seg_node_map) repeats the call before it: a render
\* with the same arguments, with no edit of the scene or the viewport between.
Repeats(flags, seg_node_map, o) ==
    /\ rlast.op = "render"
    /\ rlast.flags = flags
    /\ rlast.seg_node_map = seg_node_map
    /\ SameProcess(rlast.o, o)

\* The orders in which the sets that render iterates may iterate, and whether
\* PyOpenGL raises the errors of the context.
RenderOracles ==
    [strict : BOOLEAN,
     meshes : Perms(SceneMeshes(scene) \ renderer.meshes),
     textures : Perms(MeshTextures(SceneMeshes(scene)) \ renderer.mesh_textures),
     lights : Perms(SceneLights(scene)),
     mesh_nodes : Perms(scene.mesh_nodes)]

\* The state that a call of render which ends as r leaves.
Rendered(r, flags, seg_node_map, o) ==
    /\ renderer' = r.rd
    /\ gpu' = r.gpu
    /\ shadow_texture' = r.st
    /\ scene' = r.sc
    /\ glerr' = r.err
    /\ rlast' = [op |-> "render", flags |-> flags, seg_node_map |-> seg_node_map,
                 o |-> o, repeat |-> Repeats(flags, seg_node_map, o),
                 exc |-> r.exc, ret |-> r.ret,
                 draws |-> r.draws, read |-> r.read, dims |-> r.dims,
                 sampled |-> r.sampled,
                 allocs |-> r.allocs, frees |-> r.frees]
    /\ UNCHANGED <<children, matrix, attach, last, primitives, material>>

\* Renderer.render(scene, flags, seg_node_map).
Render(flags, seg_node_map, o) ==
    Rendered(render(RCall(o.strict), flags, seg_node_map, o), flags, seg_node_map, o)

\* The state that a call of delete which ends as r leaves.
Deleted(r) ==
    /\ renderer' = r.rd
    /\ gpu' = r.gpu
    /\ glerr' = r.err
    /\ rlast' = [NoRender EXCEPT !.op = "delete", !.allocs = r.allocs,
                                 !.frees = r.frees]
    /\ UNCHANGED <<sceneState, primitives, material, shadow_texture>>

\* Renderer.delete().
Delete == Deleted(delete(RCall(FALSE)))

\* mesh.primitives = value.
SetPrimitives(mesh, value) ==
    /\ primitives' = [primitives EXCEPT ![mesh] = value]
    /\ rlast' = NoRender
    /\ UNCHANGED <<sceneState, renderer, gpu, material, shadow_texture, glerr>>

\* primitive.material.baseColorTexture = value.
SetBaseColorTexture(p, value) ==
    /\ material' = [material EXCEPT ![p] = value]
    /\ rlast' = NoRender
    /\ UNCHANGED <<sceneState, renderer, gpu, primitives, shadow_texture, glerr>>

\* renderer.viewport_width = w; renderer.viewport_height = h.
SetViewport(w, h) ==
    /\ renderer' = [renderer EXCEPT !.viewport_width = w, !.viewport_height = h]
    /\ rlast' = NoRender
    /\ UNCHANGED <<sceneState, gpu, primitives, material, shadow_texture, glerr>>

\* light.shadow_texture = Texture(...), on a point light that holds none.
SetShadowTexture(l) ==
    /\ ~shadow_texture[l]
    /\ shadow_texture' = [shadow_texture EXCEPT ![l] = TRUE]
    /\ rlast' = NoRender
    /\ UNCHANGED <<sceneState, renderer, gpu, primitives, material, glerr>>

\* A call on the scene between two calls on the renderer.
SceneEdit ==
    /\ rlast' = NoRender
    /\ UNCHANGED <<renderer, gpu, primitives, material, shadow_texture, glerr>>

\* The getter of Scene.bounds, for the call r.
BoundsRead(r) ==
    /\ scene' = r.sc
    /\ last' = [op |-> "bounds", node |-> None, arg |-> None, exc |-> r.exc,
                ret |-> IF r.exc = None THEN (CHOOSE b \in r.sc.bounds : TRUE) ELSE None]
    /\ UNCHANGED <<children, matrix, attach>>

Bounds == BoundsRead(scene_bounds(RCall(FALSE)))

(***************************************************************************)
(* The nodes as the application built them before the first call.          *)
(***************************************************************************)
NoChildren == [n \in Nodes |-> <<>>]

\* Node(children=[...]): no children, a chain n1 -> n2 -> n3, n1 with two
\* children, n3 listed by both n1 and n2, and n1 listing n2 twice.
ChildrenConfigs ==
    {NoChildren,
     [NoChildren EXCEPT !["n1"] = <<"n2">>, !["n2"] = <<"n3">>],
     [NoChildren EXCEPT !["n1"] = <<"n2", "n3">>],
     [NoChildren EXCEPT !["n1"] = <<"n3">>, !["n2"] = <<"n3">>],
     [NoChildren EXCEPT !["n1"] = <<"n2", "n2">>]}

NoAttach == [n \in Nodes |-> None]

\* Node(name=..., mesh=..., camera=..., light=...).
AttachConfigs ==
    {[mesh |-> NoAttach, light |-> NoAttach,
      camera |-> [NoAttach EXCEPT !["n1"] = "c1", !["n2"] = "c2", !["n3"] = "c1"],
      name |-> [NoAttach EXCEPT !["n1"] = "a", !["n2"] = "a"]],
     [mesh |-> [NoAttach EXCEPT !["n1"] = "m1"],
      light |-> [NoAttach EXCEPT !["n3"] = "dl"],
      camera |-> [NoAttach EXCEPT !["n2"] = "c1"],
      name |-> [NoAttach EXCEPT !["n1"] = "a", !["n3"] = "b"]],
     [mesh |-> [NoAttach EXCEPT !["n3"] = "m2"],
      light |-> [NoAttach EXCEPT !["n1"] = "pl", !["n2"] = "sl"],
      camera |-> NoAttach,
      name |-> NoAttach],
     [mesh |-> [NoAttach EXCEPT !["n1"] = "m3", !["n2"] = "m1"],
      light |-> NoAttach,
      camera |-> NoAttach,
      name |-> NoAttach]}

NoCall == [op |-> None, node |-> None, arg |-> None, exc |-> None, ret |-> None]

\* Mesh(primitives=[...]) and the lists an application may assign later.
InitPrimitives == [m \in Meshes |-> IF m = "m1" THEN <<"p1", "p2">> ELSE <<"p3">>]

PrimitiveLists(m) ==
    IF m = "m1" THEN {<<"p1">>, <<"p2">>, <<"p1", "p2">>} ELSE {<<"p3">>}

\* Material(baseColorTexture=...).
InitMaterial == [p \in Prims |-> IF p = "p1" THEN "t1" ELSE None]

\* The viewport widths and heights.
Sizes == {1, 2}

(***************************************************************************)
(* Transparency.  An alpha is written in halves: 0 is 0.0, 1 is 0.5 and    *)
(* AlphaOne is 1.0.  Of an array of colours and of an image, the model     *)
(* keeps the number of channels and the set of the values of the alpha     *)
(* channel; NoArray stands for None.  An answer that an object remembers   *)
(* is the set of that answer, and the empty set when it remembers none.    *)
(***************************************************************************)
AlphaOne == 2
Alphas == 0..AlphaOne

NoArray == [c |-> 0, alpha |-> {}]

\* The arrays that an application assigns to color_0, and the images it assigns
\* to Texture.source: RGB, opaque RGBA and RGBA with an alpha of 0.5.
Arrays ==
    {[c |-> 3, alpha |-> {}], [c |-> 4, alpha |-> {AlphaOne}],
     [c |-> 4, alpha |-> {1, AlphaOne}]}

\* Texture.source_channels.
source_channels == [t \in Textures |-> IF t = "t1" THEN "RGBA" ELSE "RGB"]

\* format_color_array(value, shape=(n, 4)): a column of ones is added to RGB.
format_color_array(value) ==
    IF value.c < 4 THEN [c |-> 4, alpha |-> {AlphaOne}] ELSE value

\* format_texture_source(value, target_channels): None is passed through, a
\* channel of ones is added to RGB, and the alpha channel is dropped.
format_texture_source(value, target_channels) ==
    IF value = NoArray THEN NoArray
    ELSE IF target_channels = "RGBA"
    THEN IF value.c = 3 THEN [c |-> 4, alpha |-> {AlphaOne}] ELSE value
    ELSE [c |-> 3, alpha |-> {}]

\* Primitive(...) with a default MetallicRoughnessMaterial() each, and
\* Texture(source=...) with an opaque image.  op, arg and ret are the latest
\* query and its answer, and asked holds the queries made so far.
InitLook ==
    [color_0 |-> [p \in Prims |-> NoArray],
     p_is_transparent |-> [p \in Prims |-> {}],
     alphaMode |-> [p \in Prims |-> "OPAQUE"],
     alphaCutoff |-> [p \in Prims |-> 1],
     baseColorFactor |-> [p \in Prims |-> AlphaOne],
     source |-> [t \in Textures |->
                    format_texture_source([c |-> 4, alpha |-> {AlphaOne}],
                                          source_channels[t])],
     t_is_transparent |-> [t \in Textures |-> {FALSE}],
     op |-> None, arg |-> <<>>, ret |-> FALSE, asked |-> <<>>]

\* A query in progress: the objects and the answer.
Query == [lk |-> look, ret |-> FALSE]

Answer(q, ret) == [q EXCEPT !.ret = ret]

\* Texture.is_transparent(cutoff): the answer computed from the image.
tex_alpha_below(lk, t, cutoff) ==
    /\ source_channels[t] = "RGBA"
    /\ lk.source[t] # NoArray
    /\ \E a \in lk.source[t].alpha : a < cutoff

tex_compute(q, t, cutoff) ==
    [lk |-> [q.lk EXCEPT !.t_is_transparent[t] = {tex_alpha_below(q.lk, t, cutoff)}],
     ret |-> tex_alpha_below(q.lk, t, cutoff)]

\* Texture.is_transparent(cutoff), 'if self._is_transparent is None'.
tex_is_transparent(q, t, cutoff) ==
    IF q.lk.t_is_transparent[t] = {} THEN tex_compute(q, t, cutoff)
    ELSE Answer(q, TRUE \in q.lk.t_is_transparent[t])

\* MetallicRoughnessMaterial._compute_transparency, for the material of p.
Cutoff(lk, p) == IF lk.alphaMode[p] = "BLEND" THEN AlphaOne ELSE lk.alphaCutoff[p]

mat_is_transparent(q, p) ==
    IF q.lk.alphaMode[p] = "OPAQUE" THEN Answer(q, FALSE)
    ELSE IF q.lk.baseColorFactor[p] < Cutoff(q.lk, p) THEN Answer(q, TRUE)
    ELSE IF material[p] # None
    THEN tex_is_transparent(q, material[p], Cutoff(q.lk, p))
    ELSE Answer(q, FALSE)

\* Primitive._compute_transparency, after the material said no.
color_alpha_not_one(lk, p) ==
    /\ lk.color_0[p] # NoArray
    /\ \E a \in lk.color_0[p].alpha : a # AlphaOne

prim_compute(q, p) ==
    IF q.lk.p_is_transparent[p] # {} THEN Answer(q, TRUE \in q.lk.p_is_transparent[p])
    ELSE [lk |-> [q.lk EXCEPT !.p_is_transparent[p] = {color_alpha_not_one(q.lk, p)}],
          ret |-> color_alpha_not_one(q.lk, p)]

prim_after_material(q, p) == IF q.ret THEN q ELSE prim_compute(q, p)

\* Primitive.is_transparent.
prim_is_transparent(q, p) == prim_after_material(mat_is_transparent(q, p), p)

\* Mesh.is_transparent, 'for p in self.primitives'.
RECURSIVE mesh_is_transparent(_, _)
mesh_is_transparent(q, seq) ==
    IF seq = <<>> THEN Answer(q, FALSE)
    ELSE IF prim_is_transparent(q, Head(seq)).ret
    THEN prim_is_transparent(q, Head(seq))
    ELSE mesh_is_transparent(prim_is_transparent(q, Head(seq)), Tail(seq))

\* The state that the query q of the object arg leaves.
Asked(q, op, arg) ==
    /\ look' = [q.lk EXCEPT !.op = op, !.arg = arg, !.ret = q.ret,
                            !.asked = Append(@, <<op, arg, q.ret>>)]
    /\ UNCHANGED <<sceneState, rendVars, shape, clip, depth, fnVars>>

\* mesh.is_transparent, primitive.is_transparent and
\* texture.is_transparent(cutoff).
MeshIsTransparent(m) == Asked(mesh_is_transparent(Query, primitives[m]), "mesh", <<m>>)

PrimitiveIsTransparent(p) == Asked(prim_is_transparent(Query, p), "primitive", <<p>>)

TextureIsTransparent(t, cutoff) ==
    Asked(tex_is_transparent(Query, t, cutoff), "texture", <<t, cutoff>>)

\* An assignment to an attribute: no query is the latest call any more.
Assigned(lk) ==
    /\ look' = [lk EXCEPT !.op = None, !.arg = <<>>, !.ret = FALSE]
    /\ UNCHANGED <<sceneState, rendVars, shape, clip, depth, fnVars>>

\* A setter of color_0 that keeps the answer computed before: with it in the
\* place of SetColor0, C18_TransparencyPropagates fails.
SetColor0KeepsAnswer(p, value) ==
    Assigned([look EXCEPT !.color_0[p] = IF value = NoArray THEN NoArray
                                         ELSE format_color_array(value)])

\* primitive.color_0 = value.
SetColor0(p, value) ==
    Assigned([look EXCEPT !.color_0[p] = IF value = NoArray THEN NoArray
                                         ELSE format_color_array(value),
                          !.p_is_transparent[p] = {}])

\* primitive.material.alphaMode = value, alphaCutoff = value and
\* baseColorFactor = [1, 1, 1, value].
SetAlphaMode(p, value) == Assigned([look EXCEPT !.alphaMode[p] = value])

SetAlphaCutoff(p, value) == Assigned([look EXCEPT !.alphaCutoff[p] = value])

SetBaseColorFactor(p, value) == Assigned([look EXCEPT !.baseColorFactor[p] = value])

\* texture.source = value.
SetSource(t, value) ==
    Assigned([look EXCEPT
                 !.source[t] = format_texture_source(value, source_channels[t]),
                 !.t_is_transparent[t] = {FALSE}])

(***************************************************************************)
(* The per-vertex attributes of a primitive.  Of an array the model keeps  *)
(* its shape: (rows, cols), and (rows,) written with cols = 0 for an array *)
(* of one dimension; NoShape stands for None.  op and exc are the latest   *)
(* assignment and the exception it raised.                                 *)
(***************************************************************************)

\* The largest number of rows of an array.
MaxRows == 2

Attributes ==
    {"positions", "normals", "tangents", "texcoord_0", "texcoord_1", "color_0",
     "joints_0", "weights_0"}

NoShape == [rows |-> 0, cols |-> 0]

ShapeValues == [rows : 1..MaxRows, cols : {0, 2, 3, 4}]

PositionValues == [rows : 1..MaxRows, cols : {3}]

\* Primitive(positions=...) with one vertex.
InitShape ==
    [attrs |-> [a \in Attributes |->
                   IF a = "positions" THEN [rows |-> 1, cols |-> 3] ELSE NoShape],
     op |-> None, exc |-> None]

\* format_color_array(value, shape), on shapes: a colour is repeated for every
\* row, and columns of ones are added or columns are dropped.
format_color_array_shape(value, target) ==
    LET tiled == IF value.cols = 0
                 THEN [rows |-> target.rows, cols |-> value.rows] ELSE value
    IN  [tiled EXCEPT !.cols = target.cols]

\* The end of an assignment to the attribute a: value is stored, or e is raised.
Stored(a, value) ==
    /\ shape' = [attrs |-> [shape.attrs EXCEPT ![a] = value], op |-> a, exc |-> None]
    /\ UNCHANGED <<sceneState, rendVars, look, clip, depth, fnVars>>

Refused(a, e) ==
    /\ shape' = [shape EXCEPT !.op = a, !.exc = e]
    /\ UNCHANGED <<sceneState, rendVars, look, clip, depth, fnVars>>

\* primitive.positions = value.
SetPositions(value) == Stored("positions", value)

\* primitive.normals = value.
SetNormals(value) ==
    IF value # NoShape /\ value # shape.attrs["positions"]
    THEN Refused("normals", "ValueError")
    ELSE Stored("normals", value)

\* primitive.tangents = value.
SetTangents(value) ==
    IF value # NoShape
       /\ value # [rows |-> shape.attrs["positions"].rows, cols |-> 4]
    THEN Refused("tangents", "ValueError")
    ELSE Stored("tangents", value)

\* primitive.texcoord_0 = value.
SetTexcoord0(value) ==
    IF value # NoShape
       /\ (value.cols = 0 \/ value.rows # shape.attrs["positions"].rows
           \/ value.cols < 2)
    THEN Refused("texcoord_0", "ValueError")
    ELSE Stored("texcoord_0",
                IF value # NoShape /\ value.cols > 2
                THEN [value EXCEPT !.cols = 2] ELSE value)

\* primitive.texcoord_1 = value.
SetTexcoord1(value) ==
    IF value # NoShape
       /\ (value.cols = 0 \/ value.rows # shape.attrs["positions"].rows
           \/ value.cols # 2)
    THEN Refused("texcoord_1", "ValueError")
    ELSE Stored("texcoord_1", value)

\* primitive.color_0 = value, the shape it stores.
SetColor0Shape(value) ==
    Stored("color_0",
           IF value = NoShape THEN NoShape
           ELSE format_color_array_shape(
                    value, [rows |-> shape.attrs["positions"].rows, cols |-> 4]))

\* primitive.joints_0 = value and primitive.weights_0 = value.
SetJoints0(value) == Stored("joints_0", value)

SetWeights0(value) == Stored("weights_0", value)

(***************************************************************************)
(* The clipping planes of a PerspectiveCamera.  A distance is an integer,  *)
(* the default znear being 1; zfar is the set of its value, and the empty  *)
(* set when it is None.  op, arg and exc are the latest assignment, the    *)
(* value assigned and the exception raised.                                *)
(***************************************************************************)
DEFAULT_Z_NEAR == 1

\* The largest distance assigned.
MaxDistance == 3

Distances == -1..MaxDistance

\* PerspectiveCamera(yfov): znear is the default, zfar is None.
InitClip == [znear |-> DEFAULT_Z_NEAR, zfar |-> {}, op |-> None, arg |-> {}, exc |-> None]

ClipAssigned(c) ==
    /\ clip' = c
    /\ UNCHANGED <<sceneState, rendVars, look, shape, depth, fnVars>>

\* camera.znear = value.
SetZnear(value) ==
    ClipAssigned(IF value < 0
                 THEN [clip EXCEPT !.op = "znear", !.arg = {value},
                                   !.exc = "ValueError"]
                 ELSE [clip EXCEPT !.op = "znear", !.arg = {value}, !.exc = None,
                                   !.znear = value])

\* camera.zfar = value, of a PerspectiveCamera.
SetZfar(value) ==
    ClipAssigned(IF \E f \in value : f <= 0 \/ f <= clip.znear
                 THEN [clip EXCEPT !.op = "zfar", !.arg = value,
                                   !.exc = "ValueError"]
                 ELSE [clip EXCEPT !.op = "zfar", !.arg = value, !.exc = None,
                                   !.zfar = value])

(***************************************************************************)
(* The readback of a depth buffer.  A depth of the buffer is written in    *)
(* halves, DepthOne being 1.0; a depth that is returned is the fraction    *)
(* <<numerator, denominator>>, a denominator 0 being a division by zero.   *)
(***************************************************************************)
DepthOne == 2

\* The number of pixels of the buffer.
MaxPixels == 2

DepthImages == [1..MaxPixels -> 0..DepthOne]

Pixels(im) == DOMAIN im

NoDepth == [op |-> None, im |-> <<>>, z_near |-> 0, z_far |-> {}, ret |-> <<>>]

\* '2.0 * depth_im - 1.0' on a depth in halves.
Ndc(d) == <<2 * d - DepthOne, DepthOne>>

\* '2 * z_near / (1.0 - depth_im[noninf])' for z_far None, and
\* '(2.0 * z_near * z_far) / (z_far + z_near - depth_im[noninf] * (z_far - z_near))'.
linearize(x, z_near, z_far) ==
    IF z_far = {}
    THEN <<2 * z_near * x[2], x[2] - x[1]>>
    ELSE LET f == CHOOSE f \in z_far : TRUE
         IN  <<2 * z_near * f * x[2],
               (f + z_near) * x[2] - x[1] * (f - z_near)>>

\* A readback that linearizes every pixel: with it in the place of
\* linear_depth, C26_FarClipReadsZero fails.
linear_depth_unmasked(im, z_near, z_far) ==
    [i \in Pixels(im) |-> linearize(Ndc(im[i]), z_near, z_far)]

\* The lines from 'inf_inds = (depth_im == 1.0)' to 'depth_im[inf_inds] = 0.0'.
linear_depth(im, z_near, z_far) ==
    LET inf_inds == {i \in Pixels(im) : im[i] = DepthOne}
        depth_im == [i \in Pixels(im) |-> Ndc(im[i])]
        noninf == Pixels(im) \ inf_inds
        linear == [i \in Pixels(im) |->
                      IF i \in noninf THEN linearize(depth_im[i], z_near, z_far)
                      ELSE depth_im[i]]
    IN  [i \in Pixels(im) |-> IF i \in inf_inds THEN <<0, 1>> ELSE linear[i]]

DepthRead(op, im, z_near, z_far) ==
    /\ depth' = [op |-> op, im |-> im, z_near |-> z_near, z_far |-> z_far,
                 ret |-> linear_depth(im, z_near, z_far)]
    /\ UNCHANGED <<sceneState, rendVars, look, shape, clip, fnVars>>

\* Renderer._read_main_framebuffer, the depth image it returns for the buffer
\* im and the main camera's znear and zfar.
ReadMainFramebuffer(im, z_near, z_far) ==
    DepthRead("_read_main_framebuffer", im, z_near, z_far)

\* Renderer.read_depth_buf, for the buffer im and the renderer's _latest_znear
\* and _latest_zfar.
ReadDepthBuf(im, z_near, z_far) == DepthRead("read_depth_buf", im, z_near, z_far)

(***************************************************************************)
(* The order in which a pass draws the mesh nodes.  The translation of a    *)
(* world pose, scene.get_pose(n)[:3,3], is a point with integer             *)
(* coordinates, and a distance is compared by its square.                   *)
(***************************************************************************)
Points == {<<0, 0, 0>>, <<1, 0, 0>>, <<0, 2, 1>>}

\* np.linalg.norm(v - w), squared.
Norm2(v, w) ==
    (v[1] - w[1]) * (v[1] - w[1]) + (v[2] - w[2]) * (v[2] - w[2])
    + (v[3] - w[3]) * (v[3] - w[3])

\* list.insert at the place a stable ascending sort gives x in the sorted acc:
\* behind every element whose key is not above the key of x.
SortInsert(acc, x, key) ==
    LET p == Cardinality({i \in 1..Len(acc) : key[acc[i]] <= key[x]})
    IN  SubSeq(acc, 1, p) \o <<x>> \o SubSeq(acc, p + 1, Len(acc))

\* list.sort(key=...): ascending in the key, elements of equal keys in the order
\* they had.
RECURSIVE ListSort(_, _)
ListSort(seq, key) ==
    IF seq = <<>> THEN <<>>
    ELSE SortInsert(ListSort(SubSeq(seq, 1, Len(seq) - 1), key), seq[Len(seq)], key)

\* The elements of seq that satisfy keep[x], in the order of seq.
RECURSIVE Filter(_, _)
Filter(seq, keep) ==
    IF seq = <<>> THEN <<>>
    ELSE (IF keep[Head(seq)] THEN <<Head(seq)>> ELSE <<>>) \o Filter(Tail(seq), keep)

\* The key of both sorts: 'lambda n: -np.linalg.norm(scene.get_pose(n)[:3,3] -
\* cam_loc)'.
SortKey(posn, cam_loc) == [n \in Nodes |-> 0 - Norm2(posn[n], cam_loc)]

\* A sort without the minus sign of the key: with it in the place of
\* sorted_nodes, C32_TransparentBackToFront fails.
sorted_nodes_ascending(it, is_transparent, posn, cam_loc) ==
    ListSort(Filter(it, [n \in Nodes |-> ~is_transparent[n]]),
             [n \in Nodes |-> Norm2(posn[n], cam_loc)])
    \o ListSort(Filter(it, is_transparent),
                [n \in Nodes |-> Norm2(posn[n], cam_loc)])

\* Renderer._sorted_mesh_nodes(scene), where scene.mesh_nodes iterates as it,
\* node.mesh.is_transparent is is_transparent[node], the world pose of node has
\* the translation posn[node] and that of the main camera node cam_loc.
sorted_nodes(it, is_transparent, posn, cam_loc) ==
    ListSort(Filter(it, [n \in Nodes |-> ~is_transparent[n]]), SortKey(posn, cam_loc))
    \o ListSort(Filter(it, is_transparent), SortKey(posn, cam_loc))

\* No call of _sorted_mesh_nodes yet.
NoOrder ==
    [op |-> None, it |-> <<>>, is_transparent |-> [n \in Nodes |-> FALSE],
     posn |-> [n \in Nodes |-> <<0, 0, 0>>], cam_loc |-> <<0, 0, 0>>, ret |-> <<>>]

\* self._sorted_mesh_nodes(scene), as the forward pass, the shadow mapping pass
\* and the normals pass call it.
SortedMeshNodes(it, is_transparent, posn, cam_loc) ==
    /\ order' = [op |-> "_sorted_mesh_nodes", it |-> it, is_transparent |-> is_transparent,
                 posn |-> posn, cam_loc |-> cam_loc,
                 ret |-> sorted_nodes(it, is_transparent, posn, cam_loc)]
    /\ UNCHANGED <<sceneState, rendVars, look, shape, clip, depth, budget, programs, trs>>

(***************************************************************************)
(* The number of lights of each type that a shader program takes.          *)
(***************************************************************************)
MAX_N_LIGHTS == 4

\* 'n_reserved_textures = 6'.
n_reserved_textures == 6

\* The largest GL_MAX_TEXTURE_IMAGE_UNITS of a context.
MaxTexUnits == 17

\* 'n_shadow_types': the number of shadow flags that flags holds.
n_shadow_types(flags) ==
    (IF Has(flags, SHADOWS_DIRECTIONAL) THEN 1 ELSE 0)
    + (IF Has(flags, SHADOWS_SPOT) THEN 1 ELSE 0)
    + (IF Has(flags, SHADOWS_POINT) THEN 1 ELSE 0)

\* 'tex_per_light = n_available_textures // n_shadow_types'.
tex_per_light(flags, n_tex_units) ==
    (n_tex_units - n_reserved_textures) \div n_shadow_types(flags)

\* Renderer._compute_max_n_lights(flags), where glGetIntegerv(
\* GL_MAX_TEXTURE_IMAGE_UNITS) is n_tex_units: the numbers of directional, spot
\* and point lights.
compute_max_n_lights(flags, n_tex_units) ==
    IF n_shadow_types(flags) = 0 THEN <<MAX_N_LIGHTS, MAX_N_LIGHTS, MAX_N_LIGHTS>>
    ELSE <<IF Has(flags, SHADOWS_DIRECTIONAL)
           THEN tex_per_light(flags, n_tex_units)
                + ((n_tex_units - n_reserved_textures)
                   - tex_per_light(flags, n_tex_units) * n_shadow_types(flags))
           ELSE MAX_N_LIGHTS,
           IF Has(flags, SHADOWS_SPOT) THEN tex_per_light(flags, n_tex_units)
           ELSE MAX_N_LIGHTS,
           IF Has(flags, SHADOWS_POINT) THEN tex_per_light(flags, n_tex_units)
           ELSE MAX_N_LIGHTS>>

\* No call of _compute_max_n_lights yet.
NoBudget == [op |-> None, flags |-> NONE, n_tex_units |-> 0, ret |-> <<0, 0, 0>>]

\* self._compute_max_n_lights(flags), in a context of n_tex_units texture units.
ComputeMaxNLights(flags, n_tex_units) ==
    /\ budget' = [op |-> "_compute_max_n_lights", flags |-> flags,
                  n_tex_units |-> n_tex_units,
                  ret |-> compute_max_n_lights(flags, n_tex_units)]
    /\ UNCHANGED <<sceneState, rendVars, look, shape, clip, depth, order, programs, trs>>

(***************************************************************************)
(* ShaderProgramCache.  A shader file name is the pair <<directory, name>> *)
(* that os.path.split gives; defines is the set of the pairs <<name,       *)
(* value>> of the dict.  A ShaderProgram is known by the number of the     *)
(* programs built before it.                                               *)
(***************************************************************************)
ShaderNames == {"mesh.vert", "mesh.frag", "normals.geom"}
DefineNames == {"NORMAL_LOC"}
DefineValues == {1, 2}

\* The pairs that a key may hold.
KeyPairs == (ShaderNames \cup DefineNames) \X DefineValues

\* 'key = tuple(sorted([(s,1) for s in shader_names] + [(d, defines[d]) for d in
\* defines]))': the sorted tuple, given by how often it holds each pair.
CacheKey(shader_filenames, defines) ==
    [kp \in KeyPairs |->
        Cardinality({i \in 1..Len(shader_filenames) :
                        <<shader_filenames[i][2], 1>> = kp})
        + (IF kp \in defines THEN 1 ELSE 0)]

\* ShaderProgramCache.__init__: no program is cached, none was built, none is in
\* the context, and no request was made since.
NewShaderProgramCache ==
    [cache |-> {}, built |-> 0, in_context |-> {}, compiled |-> <<>>,
     asked |-> <<>>, op |-> None]

\* ShaderProgramCache.get_program, 'key not in self._program_cache' and
\* 'self._program_cache[key]': the program cached under the key of the request.
cache_lookup(c, shader_filenames, defines) ==
    {e.program : e \in {e \in c.cache : e.key = CacheKey(shader_filenames, defines)}}

\* ShaderProgramCache.get_program(vertex_shader, fragment_shader,
\* geometry_shader, defines): the cache after the call; the program returned is
\* the one now cached under the key.
shader_cache_get_program(c, shader_filenames, defines) ==
    IF cache_lookup(c, shader_filenames, defines) # {} THEN c
    ELSE [c EXCEPT !.cache = @ \cup {[key |-> CacheKey(shader_filenames, defines),
                                      files |-> shader_filenames,
                                      defines |-> defines,
                                      program |-> c.built + 1]},
                   !.built = @ + 1,
                   !.compiled = Append(@, 0)]

\* Renderer._get_primitive_program, 'if not program._in_context():
\* program._add_to_context()', for the program prog.
add_program_to_context(c, prog) ==
    IF prog \in c.in_context THEN c
    ELSE [c EXCEPT !.in_context = @ \cup {prog}, !.compiled[prog] = @ + 1]

\* self._program_cache.get_program(...) as Renderer._get_primitive_program calls
\* it, with the program added to the context.
GetProgram(shader_filenames, defines) ==
    /\ programs' =
           LET c == shader_cache_get_program(programs, shader_filenames, defines)
               prog == CHOOSE x \in cache_lookup(c, shader_filenames, defines) : TRUE
           IN  [add_program_to_context(c, prog) EXCEPT
                   !.op = "get_program",
                   !.asked = Append(@, [files |-> shader_filenames,
                                        defines |-> defines, ret |-> prog])]
    /\ UNCHANGED <<sceneState, rendVars, look, shape, clip, depth, order, budget, trs>>

\* ShaderProgramCache.clear(): every program is deleted and the dict is emptied.
ClearPrograms ==
    /\ programs' = [programs EXCEPT !.cache = {}, !.in_context = {},
                                    !.asked = <<>>, !.op = "clear"]
    /\ UNCHANGED <<sceneState, rendVars, look, shape, clip, depth, order, budget, trs>>

(***************************************************************************)
(* Node.translation, Node.rotation, Node.scale and Node.matrix, in the      *)
(* plane: a translation and a scale are pairs, a rotation is a number of    *)
(* quarter turns, and a matrix is its two columns and its translation.      *)
(***************************************************************************)
\* The column i of the rotation by r quarter turns.
RotColumn(r, i) ==
    LET c == IF r = 0 THEN 1 ELSE IF r = 2 THEN -1 ELSE 0
        sn == IF r = 1 THEN 1 ELSE IF r = 3 THEN -1 ELSE 0
    IN  IF i = 1 THEN <<c, sn>> ELSE <<0 - sn, c>>

\* Node._m_from_tqs(t, q, s): T.dot(R.dot(S)).
m_from_tqs(t, q, sc) ==
    [cols |-> [i \in 1..2 |-> <<sc[i] * RotColumn(q, i)[1], sc[i] * RotColumn(q, i)[2]>>],
     t |-> t]

\* Node._t_from_m(m).
t_from_m(m) == m.t

\* Node._s_from_m(m): the norms of the columns, each of which lies on an axis.
s_from_m(m) == [i \in 1..2 |-> Abs(m.cols[i][1]) + Abs(m.cols[i][2])]

\* Node._q_from_m(m): the rotation whose first column is the first column of m
\* divided by its norm.
q_from_m(m) ==
    CHOOSE q \in 0..3 :
        <<RotColumn(q, 1)[1] * s_from_m(m)[1], RotColumn(q, 1)[2] * s_from_m(m)[1]>>
            = m.cols[1]

\* Node(): rotation, translation and scale get their defaults through the
\* setters, and no matrix is cached.
NewNode ==
    [translation |-> <<0, 0>>, rotation |-> 0, scale |-> <<1, 1>>, _matrix |-> {},
     op |-> None, ret |-> {}]

TrsFrame ==
    UNCHANGED <<sceneState, rendVars, look, shape, clip, depth, order, budget, programs>>

\* node.translation = value, node.rotation = value and node.scale = value.
SetTrs(field, value) ==
    /\ trs' = [trs EXCEPT ![field] = value, !._matrix = {}, !.op = field, !.ret = {}]
    /\ TrsFrame

\* node.translation[i] = x and node.scale[i] = x: the getter returns the array
\* that the node holds, and the write goes past the setter.
WriteTrs(field, i, x) ==
    /\ trs' = [trs EXCEPT ![field][i] = x, !.op = "write", !.ret = {}]
    /\ TrsFrame

\* The getter of Node.matrix: the cached matrix or, if there is none, the one
\* composed now, which is cached.
node_matrix(n) ==
    IF n._matrix = {}
    THEN [n EXCEPT !._matrix = {m_from_tqs(n.translation, n.rotation, n.scale)},
                   !.ret = {m_from_tqs(n.translation, n.rotation, n.scale)}]
    ELSE [n EXCEPT !.ret = n._matrix]

\* node.matrix, read.
GetMatrix ==
    /\ trs' = [node_matrix(trs) EXCEPT !.op = "matrix"]
    /\ TrsFrame

\* node.matrix = value: the three setters that follow 'self._matrix = value'
\* leave no matrix cached.
SetMatrix(value) ==
    /\ trs' = [translation |-> t_from_m(value), rotation |-> q_from_m(value),
               scale |-> s_from_m(value), _matrix |-> {}, op |-> "set_matrix",
               ret |-> {value}]
    /\ TrsFrame

\* A renderer that has made no call yet, and the objects it will be given.
RendererInit ==
    /\ renderer = NewRenderer(1, 1)
    /\ gpu = NoGpu
    /\ primitives = InitPrimitives
    /\ material = InitMaterial
    /\ shadow_texture = [l \in Lights |-> FALSE]
    /\ glerr = NoGlErr
    /\ rlast = NoRender
    /\ look = InitLook
    /\ shape = InitShape
    /\ clip = InitClip
    /\ depth = NoDepth
    /\ order = NoOrder
    /\ budget = NoBudget
    /\ programs = NewShaderProgramCache
    /\ trs = NewNode

\* No viewer shows the scene: no thread but the application's runs.
NoViewer ==
    [_is_active |-> FALSE, _should_close |-> FALSE, _renderer |-> FALSE,
     _camera_node |-> None, _prior_main_camera_node |-> None,
     use_direct_lighting |-> FALSE, caption |-> FALSE]

\* threading.RLock(): owned by no thread.
Unlocked == [owner |-> None, count |-> 0]

ViewerAbsent ==
    /\ viewer = NoViewer
    /\ render_lock = Unlocked
    /\ pc = [viewer |-> None, app |-> "run"]

\* One more call, of at most bound calls, on objects that no viewer shows, and
\* one that leaves the colours and alpha settings alone.
Step(bound) == calls < bound /\ calls' = calls + 1 /\ UNCHANGED viewVars

Tick(bound) == Step(bound) /\ UNCHANGED objVars

(***************************************************************************)
(* The scene graph: any calls on a scene, on nodes built with children.    *)
(***************************************************************************)
SceneInit ==
    /\ scene = EmptyScene
    /\ children \in ChildrenConfigs
    /\ matrix = [n \in Nodes |-> IF n = "n2" THEN RotZ ELSE RotX]
    /\ attach \in AttachConfigs
    /\ last = NoCall
    /\ calls = 0
    /\ RendererInit
    /\ ViewerAbsent

SceneNext ==
    \/ /\ Tick(MaxCalls)
       /\ \E node \in Nodes, parent_node \in Nodes \cup {None} :
              AddNode(node, parent_node) /\ UNCHANGED rendVars
    \/ /\ Tick(MaxCalls)
       /\ \E node \in Nodes, ord \in Orders :
              RemoveNode(node, ord) /\ UNCHANGED rendVars
    \/ Tick(MaxCalls) /\ Clear /\ UNCHANGED rendVars
    \/ /\ Tick(MaxCalls)
       /\ \E value \in Nodes \cup {None} :
              SetMainCameraNode(value) /\ UNCHANGED rendVars
    \/ /\ Tick(MaxCalls)
       /\ \E node \in Nodes : GetPose(node) /\ UNCHANGED rendVars
    \/ /\ Tick(MaxCalls)
       /\ \E node \in Nodes, pose \in Poses :
              SetPose(node, pose) /\ UNCHANGED rendVars
    \/ Tick(MaxCalls) /\ Bounds /\ UNCHANGED rendVars

Init == SceneInit
Next == SceneNext
Spec == Init /\ [][Next]_vars

(***************************************************************************)
(* The renderer: renders and deletes of one renderer on one scene of root  *)
(* nodes, with edits of the scene, meshes, materials and viewport between. *)
(***************************************************************************)

\* The number of calls and edits a behaviour of the renderer makes.
MaxRenderCalls == 3

\* Scene.__init__, 'for node in node_parent_map: self.add_node(node)'.
RECURSIVE add_roots(_, _)
add_roots(w, seq) ==
    IF seq = <<>> \/ w.exc # None THEN w
    ELSE add_roots(add_node(w, Head(seq), None), Tail(seq))

\* Scene(nodes=S) for a set S of nodes without children.
SceneOf(S) == add_roots(Call(EmptyScene, NoChildren), SeqOf(S)).sc

\* A camera and: one mesh on two nodes, a mesh and a directional light, a mesh
\* and a spot light, a mesh and a point light, two meshes.
RenderAttachConfigs ==
    {[mesh |-> [NoAttach EXCEPT !["n2"] = c[1], !["n3"] = c[2]],
      light |-> [NoAttach EXCEPT !["n3"] = c[3]],
      camera |-> [NoAttach EXCEPT !["n1"] = "c1"],
      name |-> NoAttach] :
        c \in {<<"m1", "m1", None>>, <<"m1", None, "dl">>, <<"m2", None, "sl">>,
               <<"m1", None, "pl">>, <<"m1", "m2", None>>}}

\* The flags of the renders.
RenderFlagChoices ==
    {NONE, OFFSCREEN, BitOr(SHADOWS_DIRECTIONAL, SHADOWS_SPOT),
     BitOr(OFFSCREEN, SHADOWS_ALL), BitOr(OFFSCREEN, DEPTH_ONLY), SEG,
     BitOr(OFFSCREEN, VERTEX_NORMALS), BitOr(SHADOWS_POINT, DEPTH_ONLY)}

\* seg_node_map, which render reads under SEG only: None, or a colour for every
\* node.
SegNodeMaps(flags) == IF Has(flags, SEG) THEN {{}, Nodes} ELSE {{}}

RenderInit ==
    /\ children = NoChildren
    /\ matrix = [n \in Nodes |-> IF n = "n2" THEN RotZ ELSE RotX]
    /\ attach \in RenderAttachConfigs
    /\ \E S \in SUBSET Nodes : scene = SceneOf(S)
    /\ last = NoCall
    /\ calls = 0
    /\ RendererInit
    /\ ViewerAbsent

RenderNext ==
    \/ /\ Tick(MaxRenderCalls)
       /\ \E node \in Nodes : AddNode(node, None) /\ SceneEdit
    \/ /\ Tick(MaxRenderCalls)
       /\ \E node \in Nodes, ord \in Orders : RemoveNode(node, ord) /\ SceneEdit
    \/ /\ Tick(MaxRenderCalls)
       /\ \E flags \in RenderFlagChoices, o \in RenderOracles :
              \E seg_node_map \in SegNodeMaps(flags) : Render(flags, seg_node_map, o)
    \/ Tick(MaxRenderCalls) /\ Delete
    \/ /\ Tick(MaxRenderCalls)
       /\ \E mesh \in Meshes : \E value \in PrimitiveLists(mesh) :
              SetPrimitives(mesh, value)
    \/ /\ Tick(MaxRenderCalls)
       /\ \E p \in Prims, value \in Textures \cup {None} :
              SetBaseColorTexture(p, value)
    \/ /\ Tick(MaxRenderCalls)
       /\ \E w \in Sizes, h \in Sizes : SetViewport(w, h)
    \/ /\ Tick(MaxRenderCalls)
       /\ \E l \in PointLights : SetShadowTexture(l)

RenderSpec == RenderInit /\ [][RenderNext]_vars

(***************************************************************************)
(* Renders with shadows of scenes in which two nodes hold a light: one     *)
(* light object on both, or a light object each.                           *)
(***************************************************************************)

\* The number of calls on a scene with two light nodes.
MaxShadowCalls == 3

\* A mesh and a camera on n3, and on n1 and n2: one directional light, one spot
\* light, or a directional light and a spot light.
ShadowAttachConfigs ==
    {[mesh |-> [NoAttach EXCEPT !["n3"] = "m1"],
      light |-> [NoAttach EXCEPT !["n1"] = c[1], !["n2"] = c[2]],
      camera |-> [NoAttach EXCEPT !["n3"] = "c1"],
      name |-> NoAttach] :
        c \in {<<"dl", "dl">>, <<"sl", "sl">>, <<"dl", "sl">>}}

\* The flags of the renders with shadows.
ShadowRenderFlags ==
    {NONE, SHADOWS_DIRECTIONAL, SHADOWS_SPOT,
     BitOr(OFFSCREEN, BitOr(SHADOWS_DIRECTIONAL, SHADOWS_SPOT))}

ShadowInit ==
    /\ children = NoChildren
    /\ matrix = [n \in Nodes |-> IF n = "n2" THEN RotZ ELSE RotX]
    /\ attach \in ShadowAttachConfigs
    /\ \E S \in SUBSET Nodes : scene = SceneOf(S)
    /\ last = NoCall
    /\ calls = 0
    /\ RendererInit
    /\ ViewerAbsent

ShadowNext ==
    \/ /\ Tick(MaxShadowCalls)
       /\ \E node \in Nodes : AddNode(node, None) /\ SceneEdit
    \/ /\ Tick(MaxShadowCalls)
       /\ \E node \in Nodes, ord \in Orders : RemoveNode(node, ord) /\ SceneEdit
    \/ /\ Tick(MaxShadowCalls)
       /\ \E flags \in ShadowRenderFlags, o \in RenderOracles :
              Render(flags, {}, o)

ShadowSpec == ShadowInit /\ [][ShadowNext]_vars

(***************************************************************************)
(* Renders of scenes that hold no camera, under every combination of the   *)
(* flags that Renderer.render tests.                                       *)
(***************************************************************************)

\* The number of renders a behaviour makes on a scene without a camera.
MaxNoCameraRenders == 1

TestedFlags ==
    {DEPTH_ONLY, OFFSCREEN, SHADOWS_DIRECTIONAL, SHADOWS_POINT, SHADOWS_SPOT,
     VERTEX_NORMALS, FACE_NORMALS, RGBA, FLAT, SEG}

\* The flag word that combines the flags of S with '|'.
OrAll(S) == UNION S

FlagCombinations == {OrAll(S) : S \in SUBSET TestedFlags}

\* A mesh and two lights, and two meshes and a light.
NoCameraAttachConfigs ==
    {[mesh |-> [NoAttach EXCEPT !["n1"] = "m1"],
      light |-> [NoAttach EXCEPT !["n2"] = "dl", !["n3"] = "pl"],
      camera |-> NoAttach,
      name |-> NoAttach],
     [mesh |-> [NoAttach EXCEPT !["n1"] = "m1", !["n2"] = "m2"],
      light |-> [NoAttach EXCEPT !["n3"] = "sl"],
      camera |-> NoAttach,
      name |-> NoAttach]}

NoCameraInit ==
    /\ children = NoChildren
    /\ matrix = [n \in Nodes |-> IF n = "n2" THEN RotZ ELSE RotX]
    /\ attach \in NoCameraAttachConfigs
    /\ \E S \in SUBSET Nodes : scene = SceneOf(S)
    /\ last = NoCall
    /\ calls = 0
    /\ RendererInit
    /\ ViewerAbsent

\* The application edits the scene, then renders.  No node holds a camera, so
\* that remove_node never reads the order in which the set of camera nodes
\* iterates.
NoCameraNext ==
    \/ /\ calls = 0
       /\ UNCHANGED <<calls, viewVars, objVars>>
       /\ \E node \in Nodes : AddNode(node, None) /\ SceneEdit
    \/ /\ calls = 0
       /\ UNCHANGED <<calls, viewVars, objVars>>
       /\ \E node \in Nodes : RemoveNode(node, SeqOf(Nodes)) /\ SceneEdit
    \/ /\ Tick(MaxNoCameraRenders)
       /\ \E flags \in FlagCombinations, o \in RenderOracles : Render(flags, {}, o)

NoCameraSpec == NoCameraInit /\ [][NoCameraNext]_vars

(***************************************************************************)
(* The viewer: a Viewer(scene, run_in_thread=True) with its default flags  *)
(* but for use_direct_lighting and caption, the thread it starts, and the  *)
(* application thread, which edits the scene under render_lock and closes  *)
(* the viewer.                                                             *)
(***************************************************************************)

\* The number of edits of the scene that the application makes.
MaxViewerCalls == 2

\* How often the application thread acquires render_lock without a release.
MaxLockDepth == 2

ViewerThread == "viewer"
AppThread == "app"

\* The nodes that the viewer builds, Viewer._camera_node and
\* Viewer._direct_light.
ViewerCameraNode == "n3"
DirectLightNode == "n2"

\* The application's node holds a camera, or a mesh.
ViewerAttachConfigs ==
    {[mesh |-> [NoAttach EXCEPT !["n1"] = c[1]],
      light |-> [NoAttach EXCEPT ![DirectLightNode] = "dl"],
      camera |-> [NoAttach EXCEPT !["n1"] = c[2], ![ViewerCameraNode] = "c2"],
      name |-> NoAttach] : c \in {<<None, "c1">>, <<"m1", None>>}}

\* The setter of Scene.main_camera_node, in a call in progress.
set_main_camera_node(w, value) ==
    IF w.exc # None THEN w
    ELSE IF value \notin w.sc.nodes THEN Raise(w, "ValueError")
    ELSE [w EXCEPT !.sc.main_camera_node = value]

\* Viewer.__init__ on the scene sc: the viewer's camera node becomes the main
\* camera, and _reset_view reads the scale of the scene.
NewViewerScene(sc) ==
    scene_bounds(
        set_main_camera_node(add_node(Call(sc, NoChildren), ViewerCameraNode, None),
                             ViewerCameraNode)).sc

NewViewer(sc, direct, caption) ==
    [_is_active |-> TRUE, _should_close |-> FALSE, _renderer |-> TRUE,
     _camera_node |-> ViewerCameraNode,
     _prior_main_camera_node |-> sc.main_camera_node,
     use_direct_lighting |-> direct, caption |-> caption]

ViewerInit ==
    /\ children = NoChildren
    /\ matrix = [n \in Nodes |-> IF n = "n2" THEN RotZ ELSE RotX]
    /\ attach \in ViewerAttachConfigs
    /\ \E S \in SUBSET {"n1"}, direct \in BOOLEAN, caption \in BOOLEAN :
           /\ scene = NewViewerScene(SceneOf(S))
           /\ viewer = NewViewer(SceneOf(S), direct, caption)
    /\ last = NoCall
    /\ calls = 0
    /\ RendererInit
    /\ render_lock = Unlocked
    /\ pc = [viewer |-> "idle", app |-> "run"]

\* RLock.acquire() by the thread t: it waits while another thread owns the lock.
Acquire(t) ==
    /\ render_lock.owner \in {None, t}
    /\ render_lock' = [owner |-> t, count |-> render_lock.count + 1]

\* RLock.release() by the thread t, which owns the lock.
Release(t) ==
    /\ render_lock.owner = t
    /\ render_lock' = IF render_lock.count = 1 THEN Unlocked
                      ELSE [render_lock EXCEPT !.count = @ - 1]

\* Viewer._time_event, 'else: self.on_draw()', up to the acquire in on_draw.
TimeEventDraw ==
    /\ pc.viewer = "idle"
    /\ viewer._is_active /\ ~viewer._should_close /\ viewer._renderer
    /\ pc' = [pc EXCEPT !.viewer = "acquire"]
    /\ UNCHANGED <<sceneVars, rendVars, viewer, render_lock>>

\* An on_draw that renders without the lock: with it in the place of
\* OnDrawAcquire, C15_RendersUnderRenderLock fails.
OnDrawNoAcquire ==
    /\ pc.viewer = "acquire"
    /\ pc' = [pc EXCEPT !.viewer = "render"]
    /\ UNCHANGED <<sceneVars, rendVars, viewer, render_lock>>

\* Viewer.on_draw, 'if self.run_in_thread: self.render_lock.acquire()'.
OnDrawAcquire ==
    /\ pc.viewer = "acquire"
    /\ Acquire(ViewerThread)
    /\ pc' = [pc EXCEPT !.viewer = "render"]
    /\ UNCHANGED <<sceneVars, rendVars, viewer>>

\* Viewer._render, the direct light: added under the camera node, or removed.
\* No raymond light is in the scene, and none is added.
set_lighting(w, ord) ==
    IF viewer.use_direct_lighting
    THEN IF DirectLightNode \notin w.sc.nodes
         THEN add_node(w, DirectLightNode, viewer._camera_node)
         ELSE w
    ELSE IF DirectLightNode \in w.sc.nodes
         THEN remove_node(w, DirectLightNode, ord)
         ELSE w

\* The orders in which a render of the scene sc iterates its sets.
OraclesOf(sc, strict) ==
    [strict |-> strict,
     meshes |-> SeqOf(SceneMeshes(sc) \ renderer.meshes),
     textures |-> SeqOf(MeshTextures(SceneMeshes(sc)) \ renderer.mesh_textures),
     lights |-> SeqOf(SceneLights(sc)),
     mesh_nodes |-> SeqOf(sc.mesh_nodes)]

\* A call on the renderer that follows the call w on the scene.
After(w, strict) == [RCall(strict) EXCEPT !.sc = w.sc, !.exc = w.exc]

\* Viewer._render, 'self._renderer.render(self.scene, flags)': the flags are
\* NONE, and an exception of the lighting is passed on.
viewer_render(r, o) == IF r.exc # None THEN r ELSE render(r, NONE, {}, o)

\* The state that a handler of the viewer thread leaves: w is its call on the
\* scene and r the call on the renderer that follows it.
Handled(w, r) ==
    /\ scene' = r.sc
    /\ children' = w.ch
    /\ renderer' = r.rd
    /\ gpu' = r.gpu
    /\ shadow_texture' = r.st
    /\ glerr' = r.err
    /\ rlast' = NoRender
    /\ UNCHANGED <<matrix, attach, last, calls, objVars, primitives, material>>

\* Viewer.on_draw, 'self._render()'.  An exception leaves on_draw and the event
\* loop, and ends the thread, which never releases the lock.
OnDrawRendered(w, r) ==
    /\ Handled(w, r)
    /\ pc' = [pc EXCEPT !.viewer = IF r.exc # None THEN "dead"
                                   ELSE IF viewer.caption THEN "render_text"
                                   ELSE "release"]
    /\ UNCHANGED <<viewer, render_lock>>

OnDrawRender ==
    /\ pc.viewer = "render"
    /\ \E strict \in BOOLEAN :
           OnDrawRendered(
               set_lighting(Call(scene, children), SeqOf(Nodes)),
               viewer_render(
                   After(set_lighting(Call(scene, children), SeqOf(Nodes)), strict),
                   OraclesOf(set_lighting(Call(scene, children), SeqOf(Nodes)).sc,
                             strict)))

\* Viewer.on_draw, 'self._renderer.render_text(...)' for the captions.
OnDrawRenderText ==
    /\ pc.viewer = "render_text"
    /\ pc' = [pc EXCEPT !.viewer = "release"]
    /\ UNCHANGED <<sceneVars, rendVars, viewer, render_lock>>

\* Viewer.on_draw, 'if self.run_in_thread: self.render_lock.release()'.
OnDrawRelease ==
    /\ pc.viewer = "release"
    /\ Release(ViewerThread)
    /\ pc' = [pc EXCEPT !.viewer = "idle"]
    /\ UNCHANGED <<sceneVars, rendVars, viewer>>

\* Viewer.on_close, the calls on the scene: the camera node is removed, the
\* main camera of before is restored, and the direct light is removed.  _axes
\* is empty, so that _remove_axes removes nothing.
close_scene(w, ord) ==
    IF viewer.use_direct_lighting /\ DirectLightNode \in w.sc.nodes /\ w.exc = None
    THEN remove_node(w, DirectLightNode, ord)
    ELSE w

restore_main_camera(w) ==
    IF viewer._prior_main_camera_node # None
    THEN set_main_camera_node(w, viewer._prior_main_camera_node)
    ELSE w

on_close_scene(w, ord) ==
    close_scene(restore_main_camera(remove_node(w, viewer._camera_node, ord)), ord)

\* Viewer.on_close, 'self._renderer.delete()'.
viewer_delete(r) == IF r.exc # None THEN r ELSE delete(r)

\* Viewer.on_close, from _time_event once _should_close is set.  Only a call
\* that raises nothing reaches 'self._is_active = False'.
OnClosed(w, r) ==
    /\ Handled(w, r)
    /\ viewer' = IF r.exc # None THEN viewer
                 ELSE [viewer EXCEPT !._renderer = FALSE, !._is_active = FALSE]
    /\ pc' = [pc EXCEPT !.viewer = IF r.exc # None THEN "dead" ELSE "closed"]
    /\ UNCHANGED render_lock

TimeEventClose ==
    /\ pc.viewer = "idle"
    /\ viewer._is_active /\ viewer._should_close
    /\ \E ord \in Orders :
           OnClosed(on_close_scene(Call(scene, children), ord),
                    viewer_delete(After(on_close_scene(Call(scene, children), ord),
                                        FALSE)))

\* The application thread: render_lock.acquire() and render_lock.release().
AppAcquire ==
    /\ pc.app = "run"
    /\ render_lock.count < MaxLockDepth
    /\ Acquire(AppThread)
    /\ UNCHANGED <<sceneVars, rendVars, viewer, pc>>

AppRelease ==
    /\ pc.app = "run"
    /\ Release(AppThread)
    /\ UNCHANGED <<sceneVars, rendVars, viewer, pc>>

\* The application thread edits the scene while it holds render_lock.
AppEdit ==
    /\ pc.app = "run"
    /\ render_lock.owner = AppThread
    /\ calls < MaxViewerCalls
    /\ calls' = calls + 1
    /\ SceneEdit
    /\ UNCHANGED <<viewVars, objVars>>

\* Viewer.close_external(), called without the lock: 'self._should_close = True'.
CloseExternal ==
    /\ pc.app = "run"
    /\ render_lock.owner # AppThread
    /\ viewer' = [viewer EXCEPT !._should_close = TRUE]
    /\ pc' = [pc EXCEPT !.app = "close_external"]
    /\ UNCHANGED <<sceneVars, rendVars, render_lock>>

\* Viewer.close_external(), 'while self.is_active' ends and the call returns.
CloseExternalReturn ==
    /\ pc.app = "close_external"
    /\ ~viewer._is_active
    /\ pc' = [pc EXCEPT !.app = "returned"]
    /\ UNCHANGED <<sceneVars, rendVars, viewer, render_lock>>

ViewerNext ==
    \/ TimeEventDraw
    \/ OnDrawAcquire
    \/ OnDrawRender
    \/ OnDrawRenderText
    \/ OnDrawRelease
    \/ TimeEventClose
    \/ AppAcquire
    \/ AppRelease
    \/ AppEdit /\ AddNode("n1", None)
    \/ AppEdit /\ \E node \in Nodes : RemoveNode(node, SeqOf(Nodes))
    \/ CloseExternal
    \/ CloseExternalReturn

ViewerSpec == ViewerInit /\ [][ViewerNext]_vars

\* The viewer thread leaves the step 'self._render()' of on_draw, and the call of
\* on_close from _time_event: the steps OnDrawRender and TimeEventClose, told by
\* where they leave the thread.
RenderStep ==
    /\ pc.viewer = "render"
    /\ \E at \in {"render_text", "release", "dead"} : pc' = [pc EXCEPT !.viewer = at]

CloseStep ==
    /\ pc.viewer = "idle"
    /\ viewer._is_active /\ viewer._should_close
    /\ \E at \in {"closed", "dead"} : pc' = [pc EXCEPT !.viewer = at]

\* The timer of the event loop keeps firing and the viewer thread keeps running
\* while it is not blocked, and the thread inside close_external keeps polling.
ViewerFairness ==
    /\ WF_vars(TimeEventDraw)
    /\ WF_vars(OnDrawAcquire)
    /\ WF_pc(RenderStep)
    /\ WF_vars(OnDrawRenderText)
    /\ WF_vars(OnDrawRelease)
    /\ WF_pc(CloseStep)
    /\ WF_vars(CloseExternalReturn)

ViewerLiveSpec == ViewerInit /\ [][ViewerNext]_vars /\ ViewerFairness

(***************************************************************************)
(* Transparency: assignments to the colours of primitives, to the alpha    *)
(* settings of their materials and to the images of textures, with queries *)
(* of is_transparent between them.                                         *)
(***************************************************************************)

\* The number of assignments and queries a behaviour makes.
MaxLookCalls == 3

\* The primitives and materials that the application edits; every primitive,
\* mesh and texture is queried.
EditedPrims == {"p1", "p3"}

TransparencyInit ==
    /\ scene = EmptyScene
    /\ children = NoChildren
    /\ matrix = [n \in Nodes |-> IF n = "n2" THEN RotZ ELSE RotX]
    /\ attach \in RenderAttachConfigs
    /\ last = NoCall
    /\ calls = 0
    /\ RendererInit
    /\ ViewerAbsent

TransparencyNext ==
    \/ /\ Step(MaxLookCalls)
       /\ \E p \in EditedPrims, value \in Arrays \cup {NoArray} : SetColor0(p, value)
    \/ /\ Step(MaxLookCalls)
       /\ \E p \in EditedPrims, value \in {"OPAQUE", "MASK", "BLEND"} :
              SetAlphaMode(p, value)
    \/ /\ Step(MaxLookCalls)
       /\ \E p \in EditedPrims, value \in Alphas : SetAlphaCutoff(p, value)
    \/ /\ Step(MaxLookCalls)
       /\ \E p \in EditedPrims, value \in Alphas : SetBaseColorFactor(p, value)
    \/ /\ Step(MaxLookCalls)
       /\ \E t \in Textures, value \in Arrays \cup {NoArray} : SetSource(t, value)
    \/ /\ Tick(MaxLookCalls)
       /\ \E p \in EditedPrims, value \in Textures \cup {None} :
              SetBaseColorTexture(p, value)
    \/ /\ Step(MaxLookCalls)
       /\ \E m \in Meshes : MeshIsTransparent(m)
    \/ /\ Step(MaxLookCalls)
       /\ \E p \in Prims : PrimitiveIsTransparent(p)
    \/ /\ Step(MaxLookCalls)
       /\ \E t \in Textures, cutoff \in Alphas : TextureIsTransparent(t, cutoff)

TransparencySpec == TransparencyInit /\ [][TransparencyNext]_vars

(***************************************************************************)
(* Nodes outside any scene: Node(mesh=..., camera=..., light=...) and the  *)
(* assignments to the three attributes.                                    *)
(***************************************************************************)

\* The number of assignments a behaviour makes.
MaxNodeCalls == 1

\* The classes: Mesh, Camera and Light.
ClassOf(field) ==
    IF field = "mesh" THEN Meshes ELSE IF field = "camera" THEN Cameras ELSE Lights

\* Node.__init__: every argument goes through its setter.
NodeInit ==
    /\ scene = EmptyScene
    /\ children = NoChildren
    /\ matrix = [n \in Nodes |-> IF n = "n2" THEN RotZ ELSE RotX]
    /\ attach \in [mesh : [Nodes -> {None, "m1"}], camera : [Nodes -> {None, "c1"}],
                   light : [Nodes -> {None, "dl"}], name : {NoAttach}]
    /\ last = NoCall
    /\ calls = 0
    /\ RendererInit
    /\ ViewerAbsent

\* node.mesh = value, node.camera = value and node.light = value: a value of
\* another class raises TypeError.
SetNodeAttr(field, node, value) ==
    /\ attach' = IF value = None \/ value \in ClassOf(field)
                 THEN [attach EXCEPT ![field][node] = value]
                 ELSE attach
    /\ last' = [op |-> field, node |-> node, arg |-> value,
                exc |-> IF value = None \/ value \in ClassOf(field)
                        THEN None ELSE "TypeError",
                ret |-> None]
    /\ UNCHANGED <<scene, children, matrix, rendVars>>

NodeNext ==
    \/ /\ Tick(MaxNodeCalls)
       /\ \E node \in Nodes, value \in {None, "m1", "c1", "dl"} :
              SetNodeAttr("mesh", node, value)
    \/ /\ Tick(MaxNodeCalls)
       /\ \E node \in Nodes, value \in {None, "m1", "c1", "dl"} :
              SetNodeAttr("camera", node, value)
    \/ /\ Tick(MaxNodeCalls)
       /\ \E node \in Nodes, value \in {None, "m1", "c1", "dl"} :
              SetNodeAttr("light", node, value)

NodeSpec == NodeInit /\ [][NodeNext]_vars

(***************************************************************************)
(* Searches: get_nodes on the scenes that two calls of add_node and        *)
(* remove_node build.                                                      *)
(***************************************************************************)

\* The number of calls, the searches included.
MaxQueryCalls == 3

\* The objects and the names that the searches ask for.
QueryObjects == {None, "m1", "c1", "dl"}

QueryNext ==
    \/ /\ Tick(MaxQueryCalls)
       /\ \E node \in Nodes, parent_node \in Nodes \cup {None} :
              AddNode(node, parent_node) /\ UNCHANGED rendVars
    \/ /\ Tick(MaxQueryCalls)
       /\ \E node \in Nodes : RemoveNode(node, SeqOf(Nodes)) /\ UNCHANGED rendVars
    \/ /\ Tick(MaxQueryCalls)
       /\ \E node \in Nodes \cup {None}, name \in Names \cup {None},
             obj \in QueryObjects, obj_name \in Names \cup {None} :
              GetNodes(node, name, obj, obj_name) /\ UNCHANGED rendVars

QuerySpec == SceneInit /\ [][QueryNext]_vars

(***************************************************************************)
(* Objects outside any scene: the assignments to the attributes of one     *)
(* primitive, the assignments to the clipping planes of one camera, and    *)
(* the readbacks of depth buffers.                                         *)
(***************************************************************************)
ObjectsInit ==
    /\ scene = EmptyScene
    /\ children = NoChildren
    /\ matrix = [n \in Nodes |-> IF n = "n2" THEN RotZ ELSE RotX]
    /\ attach = [mesh |-> NoAttach, light |-> NoAttach, camera |-> NoAttach,
                 name |-> NoAttach]
    /\ last = NoCall
    /\ calls = 0
    /\ RendererInit
    /\ ViewerAbsent

\* The number of assignments to the attributes of the primitive.
MaxShapeCalls == 3

PrimitiveNext ==
    \/ Step(MaxShapeCalls) /\ \E value \in PositionValues : SetPositions(value)
    \/ /\ Step(MaxShapeCalls)
       /\ \E value \in ShapeValues \cup {NoShape} : SetNormals(value)
    \/ /\ Step(MaxShapeCalls)
       /\ \E value \in ShapeValues \cup {NoShape} : SetTangents(value)
    \/ /\ Step(MaxShapeCalls)
       /\ \E value \in ShapeValues \cup {NoShape} : SetTexcoord0(value)
    \/ /\ Step(MaxShapeCalls)
       /\ \E value \in ShapeValues \cup {NoShape} : SetTexcoord1(value)
    \/ /\ Step(MaxShapeCalls)
       /\ \E value \in ShapeValues \cup {NoShape} : SetColor0Shape(value)
    \/ /\ Step(MaxShapeCalls)
       /\ \E value \in ShapeValues \cup {NoShape} : SetJoints0(value)
    \/ /\ Step(MaxShapeCalls)
       /\ \E value \in ShapeValues \cup {NoShape} : SetWeights0(value)

PrimitiveSpec == ObjectsInit /\ [][PrimitiveNext]_vars

\* The number of assignments to znear and zfar.
MaxClipCalls == 3

ClipNext ==
    \/ Step(MaxClipCalls) /\ \E value \in Distances : SetZnear(value)
    \/ /\ Step(MaxClipCalls)
       /\ \E value \in {{}} \cup {{f} : f \in Distances} : SetZfar(value)

ClipSpec == ObjectsInit /\ [][ClipNext]_vars

\* The number of readbacks.
MaxDepthReads == 2

\* znear and zfar of the camera of a render: zfar is None or beyond znear.
ClipPlanes ==
    {c \in [z_near : 0..MaxDistance, z_far : {{}} \cup {{f} : f \in 1..MaxDistance}] :
        \A f \in c.z_far : f > c.z_near}

DepthNext ==
    \/ /\ Step(MaxDepthReads)
       /\ \E im \in DepthImages, c \in ClipPlanes :
              ReadMainFramebuffer(im, c.z_near, c.z_far)
    \/ /\ Step(MaxDepthReads)
       /\ \E im \in DepthImages, c \in ClipPlanes :
              ReadDepthBuf(im, c.z_near, c.z_far)

DepthSpec == ObjectsInit /\ [][DepthNext]_vars

(***************************************************************************)
(* Scene(nodes=L) on nodes whose children lists may form cycles.           *)
(***************************************************************************)

\* Scene.__init__, the body of 'for child in node.children': a child that is
\* not in the list is no key of node_parent_map, and a child with a parent is
\* refused.  f.map[n] holds the parent of n, if one was found.
note_parent(f, node, child) ==
    IF f.exc # None THEN f
    ELSE IF child \notin f.keys THEN [f EXCEPT !.exc = "KeyError"]
    ELSE IF f.map[child] # None THEN [f EXCEPT !.exc = "ValueError"]
    ELSE [f EXCEPT !.map[child] = node]

\* Scene.__init__, 'for child in node.children'.
RECURSIVE note_children(_, _, _)
note_children(f, node, seq) ==
    IF seq = <<>> THEN f
    ELSE note_children(note_parent(f, node, Head(seq)), node, Tail(seq))

\* Scene.__init__, 'for node in nodes', over the children lists ch.
RECURSIVE find_parents(_, _, _)
find_parents(f, seq, ch) ==
    IF seq = <<>> THEN f
    ELSE find_parents(note_children(f, Head(seq), ch[Head(seq)]), Tail(seq), ch)

\* 'node_parent_map = {n: None for n in nodes}'.
node_parent_map(nodes) ==
    [keys |-> Range(nodes), map |-> [n \in Nodes |-> None], exc |-> None]

\* The nodes of the list that have no parent, in the order of the list.
RECURSIVE RootsOf(_, _)
RootsOf(f, seq) ==
    IF seq = <<>> THEN <<>>
    ELSE (IF f.map[Head(seq)] = None THEN <<Head(seq)>> ELSE <<>>)
         \o RootsOf(f, Tail(seq))

\* Scene.__init__(nodes), 'Find root nodes and add them', as the call w on the
\* empty scene.
scene_init(w, nodes) ==
    LET f == find_parents(node_parent_map(nodes), nodes, w.ch) IN
    IF f.exc # None THEN Raise(w, f.exc)
    ELSE add_roots(w, RootsOf(f, nodes))

\* Scene(nodes=nodes).
NewScene(nodes) ==
    LET w == scene_init(Call(EmptyScene, children), nodes) IN
    /\ scene' = w.sc
    /\ children' = w.ch
    /\ last' = [op |-> "Scene", node |-> None, arg |-> nodes, exc |-> w.exc,
                ret |-> None]
    /\ UNCHANGED <<matrix, attach>>

\* The number of scenes that are built.
MaxBuilds == 2

\* The children lists: those of the other scenes, the two nodes n2 and n3 that
\* list each other, with and without n1 above n2, a cycle of the three nodes,
\* and a node that lists itself.
BuildConfigs ==
    ChildrenConfigs
    \cup {[NoChildren EXCEPT !["n2"] = <<"n3">>, !["n3"] = <<"n2">>],
          [NoChildren EXCEPT !["n1"] = <<"n2">>, !["n2"] = <<"n3">>, !["n3"] = <<"n2">>],
          [NoChildren EXCEPT !["n1"] = <<"n2">>, !["n2"] = <<"n3">>, !["n3"] = <<"n1">>],
          [NoChildren EXCEPT !["n1"] = <<"n1">>]}

\* The lists of nodes given to Scene: every node once, in any order, with the
\* children of every node of the list in the list.
NodeLists ==
    UNION {Perms(S) : S \in {S \in SUBSET Nodes :
                                \A n \in S : Range(children[n]) \subseteq S}}

BuildInit ==
    /\ scene = EmptyScene
    /\ children \in BuildConfigs
    /\ matrix = [n \in Nodes |-> IF n = "n2" THEN RotZ ELSE RotX]
    /\ attach \in AttachConfigs
    /\ last = NoCall
    /\ calls = 0
    /\ RendererInit
    /\ ViewerAbsent

BuildNext ==
    \/ /\ Tick(MaxBuilds)
       /\ \E nodes \in NodeLists : NewScene(nodes) /\ UNCHANGED rendVars

BuildSpec == BuildInit /\ [][BuildNext]_vars

\* The number of passes over the mesh nodes.
MaxSortCalls == 1

\* The main camera is at one of two points.
CameraPoints == {<<0, 0, 0>>, <<1, 0, 0>>}

\* A value of the set vals for every mesh node, and the value rest for the nodes
\* that the pass does not look at.
MeshNodeValues(mesh_nodes, vals, rest) ==
    {f \in [Nodes -> vals \cup {rest}] : \A n \in Nodes \ mesh_nodes : f[n] = rest}

SortNext ==
    \/ /\ Step(MaxSortCalls)
       /\ \E mesh_nodes \in SUBSET Nodes, cam_loc \in CameraPoints :
              \E it \in Perms(mesh_nodes),
                 is_transparent \in MeshNodeValues(mesh_nodes, BOOLEAN, FALSE),
                 posn \in MeshNodeValues(mesh_nodes, Points, <<0, 0, 0>>) :
                  SortedMeshNodes(it, is_transparent, posn, cam_loc)

SortSpec == ObjectsInit /\ [][SortNext]_vars

\* The number of programs that are built.
MaxBudgetCalls == 2

\* The flags of a render: every choice of the three shadow flags, with or without
\* OFFSCREEN.
ShadowFlagChoices ==
    {BitOr(other, BitOr(d, BitOr(sp, pt))) :
        other \in {NONE, OFFSCREEN}, d \in {NONE, SHADOWS_DIRECTIONAL},
        sp \in {NONE, SHADOWS_SPOT}, pt \in {NONE, SHADOWS_POINT}}

BudgetNext ==
    \/ /\ Step(MaxBudgetCalls)
       /\ \E flags \in ShadowFlagChoices, n \in n_reserved_textures..MaxTexUnits :
              ComputeMaxNLights(flags, n)

BudgetSpec == ObjectsInit /\ [][BudgetNext]_vars

\* The number of calls on the cache.
MaxCacheCalls == 3

\* The shader files of a request: a vertex shader of the shader directory or of
\* a directory below it, the fragment shader, and a geometry shader or none.
ShaderFileChoices ==
    {<<v, <<"", "mesh.frag">>>> \o g :
        v \in {<<"", "mesh.vert">>, <<"debug", "mesh.vert">>},
        g \in {<<>>, <<(<<"", "normals.geom">>)>>}}

\* The defines of a request.
DefineChoices == {{}} \cup {{<<d, v>>} : d \in DefineNames, v \in DefineValues}

CacheNext ==
    \/ /\ Step(MaxCacheCalls)
       /\ \E shader_filenames \in ShaderFileChoices, defines \in DefineChoices :
              GetProgram(shader_filenames, defines)
    \/ Step(MaxCacheCalls) /\ ClearPrograms

CacheSpec == ObjectsInit /\ [][CacheNext]_vars

\* The number of assignments and reads of the node's transform.
MaxTrsCalls == 3

Translations == {<<0, 0>>, <<1, 0>>}
Scales == {<<1, 1>>, <<2, 1>>}

\* The matrices that are assigned: a rotation and a positive scale, translated.
Matrices ==
    {m_from_tqs(t, q, sc) : t \in Translations, q \in {0, 1}, sc \in Scales}

TrsNext ==
    \/ Step(MaxTrsCalls) /\ \E value \in Translations : SetTrs("translation", value)
    \/ Step(MaxTrsCalls) /\ \E value \in {0, 1} : SetTrs("rotation", value)
    \/ Step(MaxTrsCalls) /\ \E value \in Scales : SetTrs("scale", value)
    \/ /\ Step(MaxTrsCalls)
       /\ \E field \in {"translation", "scale"}, i \in 1..2, x \in 1..2 :
              WriteTrs(field, i, x)
    \/ Step(MaxTrsCalls) /\ GetMatrix
    \/ Step(MaxTrsCalls) /\ \E value \in Matrices : SetMatrix(value)

TrsSpec == ObjectsInit /\ [][TrsNext]_vars

(***************************************************************************)
(* Claims about the scene graph.                                           *)
(***************************************************************************)

\* The first parent edge of a node in the transform tree.
ParentOf(n) ==
    IF scene.digraph.adj[n] = <<>> THEN None ELSE scene.digraph.adj[n][1]

\* The product of the local matrices along the parent chain of n, root first.
RECURSIVE ChainProduct(_, _)
ChainProduct(n, fuel) ==
    IF fuel = 0 \/ ParentOf(n) \notin Nodes THEN matrix[n]
    ELSE Dot(ChainProduct(ParentOf(n), fuel - 1), matrix[n])

\* C1: get_pose(n) of a node n of the scene returns the product of the local
\* matrices along n's parent chain, root first (a root: its own local matrix).
C1_PoseIsChainProduct ==
    (last.op = "get_pose" /\ last.node \in scene.nodes) =>
        /\ last.exc = None
        /\ last.ret = ChainProduct(last.node, Cardinality(Nodes))

\* C4: every category index is a subset of scene.nodes and holds exactly the
\* nodes of scene.nodes that carry an attachment of its category.
C4_IndicesMatchNodes ==
    /\ scene.mesh_nodes = {n \in scene.nodes : attach.mesh[n] # None}
    /\ scene.camera_nodes = {n \in scene.nodes : attach.camera[n] # None}
    /\ scene.point_light_nodes =
           {n \in scene.nodes : attach.light[n] \in PointLights}
    /\ scene.spot_light_nodes =
           {n \in scene.nodes : attach.light[n] \in SpotLights}
    /\ scene.directional_light_nodes =
           {n \in scene.nodes : attach.light[n] \in DirectionalLights}

\* The nodes reachable from n through children lists, n included.
RECURSIVE Reach(_, _, _)
Reach(set, ch, fuel) ==
    IF fuel = 0 THEN set
    ELSE Reach(set \cup {c \in Nodes : \E p \in set : InSeq(c, ch[p])}, ch, fuel - 1)

Subtree(n, ch) == Reach({n}, ch, Cardinality(Nodes))

\* Every node that some index of the scene holds.
Indexed(sc) ==
    sc.mesh_nodes \cup sc.camera_nodes \cup sc.point_light_nodes
    \cup sc.spot_light_nodes \cup sc.directional_light_nodes
    \cup UNION {sc.name_to_nodes[k] : k \in Names}
    \cup UNION {sc.obj_to_nodes[o] : o \in Objects}
    \cup UNION {sc.obj_name_to_nodes[k] : k \in Names}

\* C5: after remove_node(n) returns, n and its descendants are in neither
\* scene.nodes nor any index, n is in no former parent's children list, and the
\* nodes outside n's subtree are still in the scene.
C5_RemoveNodeRemovesSubtree ==
    [][\A node \in Nodes, ord \in Orders :
          (RemoveNode(node, ord) /\ last'.exc = None) =>
              /\ Subtree(node, children) \cap scene'.nodes = {}
              /\ Subtree(node, children) \cap Indexed(scene') = {}
              /\ \A p \in Nodes :
                     InSeq(p, scene.digraph.adj[node]) => ~InSeq(node, children'[p])
              /\ scene.nodes \ Subtree(node, children) \subseteq scene'.nodes]_vars

\* C6: main_camera_node is None or a node of scene.nodes.
C6_MainCameraInScene ==
    scene.main_camera_node # None => scene.main_camera_node \in scene.nodes

\* C7: when remove_node removes the main camera node, one of the camera nodes
\* that stay in the scene becomes the main one (the only one if there is exactly
\* one), and main_camera_node becomes None if no camera node stays.
C7_MainCameraPromotion ==
    [][\A node \in Nodes, ord \in Orders :
          (/\ RemoveNode(node, ord)
           /\ last'.exc = None
           /\ scene.main_camera_node \in Subtree(node, children)) =>
              LET others == scene.camera_nodes \ Subtree(node, children)
              IN  /\ others = {} => scene'.main_camera_node = None
                  /\ others # {} => scene'.main_camera_node \in others]_vars

\* Whether following the first parent edges from n reaches 'world'.
RECURSIVE ReachesWorld(_, _)
ReachesWorld(n, fuel) ==
    IF ParentOf(n) = World THEN TRUE
    ELSE IF fuel = 0 \/ ParentOf(n) \notin Nodes THEN FALSE
    ELSE ReachesWorld(ParentOf(n), fuel - 1)

\* C11: the nodes of the scene form a forest under 'world': every node of the
\* scene has exactly one parent edge, the parent edges have no cycle, for nodes
\* p and c of the scene c is in p.children iff the graph has the edge c -> p;
\* and add_node on a node that already has a parent raises ValueError.
C11_Forest ==
    /\ [](\A n \in scene.nodes :
             /\ n \in scene.digraph.nodes
             /\ Len(scene.digraph.adj[n]) = 1
             /\ ReachesWorld(n, Cardinality(Nodes))
             /\ \A p \in scene.nodes :
                    InSeq(n, children[p]) <=> InSeq(p, scene.digraph.adj[n]))
    /\ [][(/\ last'.op = "add_node"
           /\ calls' = calls + 1
           /\ scene.digraph.adj[last'.node] # <<>>) =>
              last'.exc = "ValueError"]_vars

\* C12: add_node(n, parent) that returns has inserted n and every descendant of
\* n through children lists, each with a parent edge to the node whose children
\* list holds it (n itself to its parent, or to 'world'); add_node on a node that
\* is in the scene raises ValueError.
C12_AddNodeInsertsSubtree ==
    [][\A node \in {last'.node}, parent_node \in {last'.arg} :
          (last'.op = "add_node" /\ calls' = calls + 1) =>
              /\ node \in scene.nodes => last'.exc = "ValueError"
              /\ last'.exc = None =>
                     /\ Subtree(node, children') \subseteq scene'.nodes
                     /\ Subtree(node, children') \cap scene.nodes = {}
                     /\ InSeq(IF parent_node = None THEN World ELSE parent_node,
                              scene'.digraph.adj[node])
                     /\ parent_node # None => InSeq(node, children'[parent_node])
                     /\ \A p \in Subtree(node, children') :
                            \A i \in 1..Len(children'[p]) :
                                InSeq(p, scene'.digraph.adj[children'[p][i]])]_vars

\* add_node returned after it inserted a node with a child and a grandchild.
C12_Witness ==
    /\ last.op = "add_node"
    /\ last.exc = None
    /\ Cardinality(Subtree(last.node, children)) = 3
    /\ children[last.node] # <<>>
    /\ Subtree(last.node, children) \subseteq scene.nodes
    /\ \A n \in Subtree(last.node, children) \ {last.node} :
           ParentOf(n) \in Subtree(last.node, children)

\* The box of the bounds of the visible meshes of the scene, each moved by the
\* product of the local matrices along the parent chain of its node.
VisibleBounds ==
    BoxOf(UNION {{Apply(ChainProduct(n, Cardinality(Nodes)), c) :
                     c \in Corners(MeshBounds[attach.mesh[n]])} :
                 n \in {n \in scene.nodes :
                           attach.mesh[n] # None /\ is_visible[attach.mesh[n]]}})

\* C13: scene.bounds is the axis-aligned union, in world space, of the bounds of
\* the mesh of every visible mesh node moved by the world pose of the node, and
\* the zero box when the scene has no mesh node.
C13_BoundsAreVisibleUnion ==
    last.op = "bounds" => (last.exc = None /\ last.ret = VisibleBounds)

(***************************************************************************)
(* Claims about the renderer.                                              *)
(***************************************************************************)

\* The primitives of the meshes of the scene.
ScenePrimitives ==
    UNION {{primitives[m][i] : i \in 1..Len(primitives[m])} : m \in SceneMeshes(scene)}

\* C2: after every successful render, every primitive of every mesh of the scene
\* and every texture of their materials is resident, and no other primitive or
\* mesh texture that the renderer uploaded is.
C2_SceneResourcesResident ==
    (rlast.op = "render" /\ rlast.exc = None) =>
        /\ gpu.prims = ScenePrimitives
        /\ gpu.texs = MeshTextures(SceneMeshes(scene))

\* C3: a render that follows a render with the same flags and viewport, with no
\* change to the scene between them, allocates nothing (no primitive, texture,
\* shadow texture, program or framebuffer) and releases nothing.
C3_SecondRenderAllocatesNothing ==
    [][(/\ rlast.op = "render"
        /\ rlast'.op = "render"
        /\ rlast'.flags = rlast.flags
        /\ rlast'.seg_node_map = rlast.seg_node_map
        /\ SameProcess(rlast.o, rlast'.o)) =>
           (rlast'.allocs = 0 /\ rlast'.frees = 0)]_vars

\* A render that repeats the render before it, succeeds and draws offscreen from
\* the resident resources.
C3_Witness ==
    /\ rlast.op = "render"
    /\ rlast.repeat
    /\ Has(rlast.flags, OFFSCREEN)
    /\ rlast.exc = None
    /\ rlast.allocs = 0
    /\ rlast.frees = 0
    /\ rlast.draws > 0
    /\ gpu.prims # {}
    /\ gpu.progs # {}
    /\ gpu.fbs # {}

\* C8: a render of a scene whose main_camera_node is None raises, whatever the
\* flags, draws nothing and returns no buffers, and leaves the scene without a
\* camera.
C8_NoCameraRenderRaises ==
    [][(scene.main_camera_node = None /\ rlast'.op = "render") =>
          /\ rlast'.exc # None
          /\ rlast'.draws = 0
          /\ rlast'.ret = None
          /\ scene'.main_camera_node = None
          /\ scene'.camera_nodes = scene.camera_nodes
          /\ scene'.nodes = scene.nodes]_vars

\* A render with shadow and offscreen flags that raised ValueError for the
\* missing camera after the meshes of the scene were uploaded.
C8_Witness ==
    /\ rlast.op = "render"
    /\ scene.main_camera_node = None
    /\ rlast.exc = "ValueError"
    /\ Has(rlast.flags, SHADOWS_DIRECTIONAL)
    /\ Has(rlast.flags, OFFSCREEN)
    /\ gpu.prims # {}
    /\ rlast.draws = 0

\* C9: in any sequence of render and delete calls no handle is deleted twice and
\* no handle is bound or used after it was deleted.
C9_NoDoubleDeleteNoUseAfterDelete ==
    ~glerr.double_delete /\ ~glerr.use_after_delete

\* C10: after delete returns, nothing that the renderer created is allocated.
C10_DeleteReleasesAll ==
    rlast.op = "delete" => gpu = NoGpu

\* C14: a render with SHADOWS_POINT on a scene that holds a point light never
\* returns: it raises NotImplementedError.
C14_PointShadowsNotImplemented ==
    (/\ rlast.op = "render"
     /\ Has(rlast.flags, SHADOWS_POINT)
     /\ scene.point_light_nodes # {}) => rlast.exc = "NotImplementedError"

\* C17: the named flags are independent bits: two distinct named flags other than
\* SHADOWS_ALL share no bit, so a word that combines two flags with '|' passes the
\* test 'flags & T' of a named flag T other than NONE exactly when T is one of
\* the two; and the flags of a render pass the test of a named flag exactly when
\* it is one of the flags that were combined into them.
C17_FlagsAreIndependentBits ==
    /\ \A F \in NamedFlags, G \in NamedFlags : F # G => BitAnd(F, G) = NONE
    /\ \A F \in NamedFlags, G \in NamedFlags, T \in NamedFlags \ {NONE} :
           Has(BitOr(F, G), T) <=> T \in {F, G}
    /\ rlast.op = "render" =>
           \E S \in SUBSET TestedFlags :
               /\ rlast.flags = OrAll(S)
               /\ \A T \in NamedFlags \ {NONE} : Has(rlast.flags, T) <=> T \in S

(***************************************************************************)
(* Claims about the viewer.                                                *)
(***************************************************************************)

\* C15: in a viewer that runs in a thread, the viewer thread is inside
\* Renderer.render or Renderer.render_text only while it owns render_lock itself,
\* so never while another thread holds the lock.
C15_RendersUnderRenderLock ==
    pc.viewer \in {"render", "render_text"} =>
        /\ render_lock.owner = ViewerThread
        /\ render_lock.count > 0

\* The viewer thread has rendered and is about to render the captions, after the
\* application edited the scene under the lock and released it.
C15_Witness ==
    /\ pc.viewer = "render_text"
    /\ render_lock.owner = ViewerThread
    /\ last.op = "remove_node"
    /\ last.exc = None

\* C16: once close_external() is called on a running viewer, the viewer becomes
\* inactive and close_external returns, whatever the application did to the scene
\* under render_lock before; and once it has returned, the viewer thread has
\* left its handlers for good, so that it edits and renders the scene no more.
C16_CloseExternalReturns ==
    /\ (pc.app = "close_external") ~> (pc.app = "returned" /\ ~viewer._is_active)
    /\ [](pc.app = "returned" => pc.viewer = "closed")

(***************************************************************************)
(* Claims about meshes, primitives, materials, textures and nodes.         *)
(***************************************************************************)

\* Whether the material of p is transparent, and whether p is: its material is,
\* or some alpha of its colours is below 1.
MaterialTransparent(p) == mat_is_transparent(Query, p).ret

PrimitiveTransparent(p) ==
    \/ MaterialTransparent(p)
    \/ look.color_0[p] # NoArray /\ \E a \in look.color_0[p].alpha : a < AlphaOne

C19_TextureTransparency ==
    /\ look.op = "texture" =>
           look.ret = (/\ source_channels[look.arg[1]] = "RGBA"
                       /\ look.source[look.arg[1]] # NoArray
                       /\ \E a \in look.source[look.arg[1]].alpha : a < look.arg[2])
    /\ \A t \in Textures :
           (/\ look.op = "primitive"
            /\ look.alphaMode[look.arg[1]] = "BLEND"
            /\ material[look.arg[1]] = t
            /\ source_channels[t] = "RGBA"
            /\ look.source[t] # NoArray
            /\ \E a \in look.source[t].alpha : a < AlphaOne) => look.ret = TRUE

\* C20: a node holds at most one of a mesh, a camera and a light, however it was
\* built and whatever was assigned to it.
C20_NodeHoldsOneObject ==
    \A n \in Nodes : Cardinality(NodeObjs(n)) <= 1

(***************************************************************************)
(* Further claims about the scene graph.                                   *)
(***************************************************************************)

\* A step that is a call of remove_node, which the log of the latest call names.
RemoveNodeCall == calls' = calls + 1 /\ last'.op = "remove_node"

PoseCall == calls' = calls + 1 /\ last'.op \in {"get_pose", "set_pose"}

\* C22: get_pose(n) and set_pose(n, M) of a node n that is not in scene.nodes
\* raise ValueError and leave the scene (its node set, indices, graph and path
\* cache) and every local matrix as they were.
C22_PoseOfAbsentNodeRaises ==
    [][(PoseCall /\ last'.node \notin scene.nodes) =>
           /\ last'.exc = "ValueError"
           /\ scene' = scene
           /\ matrix' = matrix]_vars

\* add_node(n1) of the chain n1 -> n2 -> n3, then remove_node(n2), which removed
\* n3 with it, then get_pose(n3), which raised ValueError.
C22_Witness ==
    /\ calls = 3
    /\ last.op = "get_pose" /\ last.node = "n3" /\ last.exc = "ValueError"
    /\ scene.nodes = {"n1"}
    /\ children["n1"] = <<>> /\ children["n2"] = <<"n3">>

\* C27: a path that the cache holds for a node n is a path that get_pose(n)
\* would compute from the graph with an empty cache, so that the pose from the
\* cache is the pose without it, after every call, also one that raised.
C27_PathCacheNeverStale ==
    \A n \in Nodes :
        scene.path_cache[n] # <<>> =>
            scene.path_cache[n] \in ShortestPaths(scene.digraph, n)

\* The scene without its two caches: the node set, the indices, the main camera
\* and the graph.
Uncached(sc) == [sc EXCEPT !.path_cache = [n \in Nodes |-> <<>>], !.bounds = {}]

\* C28: an add_node (or add) that raises ValueError leaves the node set, the
\* indices, the main camera, the graph and every children list as they were
\* before the call.
C28_FailedAddNodeChangesNothing ==
    [][(/\ calls' = calls + 1
        /\ last'.op = "add_node"
        /\ last'.exc = "ValueError") =>
           /\ Uncached(scene') = Uncached(scene)
           /\ children' = children]_vars

\* Scene.bounds as it is computed when no value is cached.
FreshBounds == scene_bounds([RCall(FALSE) EXCEPT !.sc.bounds = {}])

\* C29: the read of scene.bounds that follows a set_pose of a node of the scene
\* returns the bounds computed from the poses as they are now, not a value
\* cached before the call.
C29_BoundsFreshAfterSetPose ==
    [][(/\ last.op = "set_pose" /\ last.exc = None
        /\ calls' = calls + 1
        /\ last'.op = "bounds" /\ last'.exc = None) =>
           last'.ret \in FreshBounds.sc.bounds]_vars

\* C25: get_nodes(node, name, obj, obj_name) returns the nodes of the scene that
\* match every parameter that is given: the node itself, the node's name, an
\* object attached to the node, and the name of an object attached to it.
C25_GetNodesMatchesAll ==
    last.op = "get_nodes" =>
        last.ret = {n \in scene.nodes :
                       /\ last.node # None => n = last.node
                       /\ last.arg[1] # None => attach.name[n] = last.arg[1]
                       /\ last.arg[2] # None => last.arg[2] \in NodeObjs(n)
                       /\ last.arg[3] # None =>
                              \E o \in NodeObjs(n) : ObjName(o) = last.arg[3]}

(***************************************************************************)
(* Claims about primitives, cameras and depth readback.                    *)
(***************************************************************************)

\* C23: every per-vertex attribute of a primitive that is present has as many
\* rows as positions, whatever was assigned and in whatever order.
C23_AttributesShareRows ==
    \A a \in Attributes :
        shape.attrs[a] # NoShape =>
            /\ shape.attrs[a].cols # 0
            /\ shape.attrs[a].rows = shape.attrs["positions"].rows

\* zfar is None or beyond znear.
ValidClip(c) == \A f \in c.zfar : f > c.znear

\* The assignment that a step makes would put zfar at or before znear.
WouldCross ==
    \/ clip'.op = "znear" /\ \E v \in clip'.arg, f \in clip.zfar : f <= v
    \/ clip'.op = "zfar" /\ \E f \in clip'.arg : f <= clip.znear

\* C24: after every assignment to znear or zfar of a camera, zfar is None or
\* greater than znear; an assignment that would make zfar <= znear raises
\* ValueError and changes neither.
C24_FarBeyondNear ==
    [][calls' = calls + 1 =>
           /\ ValidClip(clip')
           /\ WouldCross =>
                  /\ clip'.exc = "ValueError"
                  /\ clip'.znear = clip.znear
                  /\ clip'.zfar = clip.zfar]_vars

\* The linear depth of a pixel of depth d / DepthOne < 1, as the fraction of
\* its numerator and denominator: n / (1 - d) for zfar None, and
\* n f / (f - d (f - n)) for the far plane f.
LinearDepth(d, z_near, z_far) ==
    IF z_far = {} THEN <<z_near * DepthOne, DepthOne - d>>
    ELSE LET f == CHOOSE f \in z_far : TRUE
         IN  <<z_near * f * DepthOne, f * DepthOne - d * (f - z_near)>>

SameFraction(x, y) == x[2] # 0 /\ y[2] # 0 /\ x[1] * y[2] = y[1] * x[2]

\* C26: both readbacks return the linear depth 0.0 for every pixel whose depth
\* is exactly 1.0, for a far plane and for zfar None, and the linear depth of
\* the formula for every other pixel.
C26_FarClipReadsZero ==
    depth.op # None =>
        \A i \in Pixels(depth.im) :
            IF depth.im[i] = DepthOne
            THEN SameFraction(depth.ret[i], <<0, 1>>)
            ELSE SameFraction(depth.ret[i],
                              LinearDepth(depth.im[i], depth.z_near, depth.z_far))

\* read_depth_buf, for zfar None, of a buffer with a pixel at depth 1.0, read
\* as 0, and a pixel before it, read as a positive depth.
C26_Witness ==
    /\ depth.op = "read_depth_buf" /\ depth.z_far = {} /\ calls = 1
    /\ \E i, j \in Pixels(depth.im) :
           /\ depth.im[i] = DepthOne /\ depth.ret[i] = <<0, 1>>
           /\ depth.im[j] < DepthOne /\ depth.ret[j][1] > 0

\* C30: after every successful render(scene, flags) the renderer's resident
\* shadow textures of directional and spot lights are exactly those of the
\* scene's lights whose type has its shadow flag (SHADOWS_DIRECTIONAL,
\* SHADOWS_SPOT) set in flags, so a render with the flag cleared releases the
\* shadow textures that a render with the flag set made resident.
C30_ShadowTexturesFollowFlags ==
    (rlast.op = "render" /\ rlast.exc = None) =>
        renderer.shadow_textures \ PointLights =
            {l \in SceneLights(scene) \ PointLights : ShadowActive(l, rlast.flags)}

(***************************************************************************)
(* Claims about the order of the passes and the buffers of a render.       *)
(***************************************************************************)
\* A render that ended without raising, with OFFSCREEN and a normals flag set.
OffscreenNormals ==
    /\ rlast.op = "render" /\ rlast.exc = None
    /\ Has(rlast.flags, OFFSCREEN)
    /\ ~Has(rlast.flags, DEPTH_ONLY)
    /\ Has(rlast.flags, BitOr(VERTEX_NORMALS, FACE_NORMALS))

\* C31: the steps of one render occur in the order resource sync, shadow
\* passes, forward pass, normal-overlay pass, readback, so with OFFSCREEN and a
\* normals flag set the colour buffer returned is read back after every draw
\* call of the render, those of the normal-overlay pass included.
C31_ReadbackAfterNormalsPass == OffscreenNormals => rlast.read = {rlast.draws}

\* The place of the node n in the sequence seq, 0 when n is not in it.
Place(seq, n) == IF InSeq(n, seq) THEN CHOOSE i \in 1..Len(seq) : seq[i] = n ELSE 0

\* C32: in every forward, shadow and normals pass _sorted_mesh_nodes yields every
\* mesh node of the scene exactly once, every non-transparent mesh node before
\* every transparent one, and the transparent nodes in non-increasing distance
\* from the position of the main camera.
C32_TransparentBackToFront ==
    order.op # None =>
        /\ Len(order.ret) = Len(order.it)
        /\ \A n \in Range(order.it) :
               Cardinality({i \in 1..Len(order.ret) : order.ret[i] = n}) = 1
        /\ \A i, j \in 1..Len(order.ret) :
               /\ (~order.is_transparent[order.ret[i]]
                   /\ order.is_transparent[order.ret[j]]) => i < j
               /\ (i < j /\ order.is_transparent[order.ret[i]]
                   /\ order.is_transparent[order.ret[j]]) =>
                      Norm2(order.posn[order.ret[i]], order.cam_loc)
                          >= Norm2(order.posn[order.ret[j]], order.cam_loc)

\* A pass over three mesh nodes, a solid one that is nearest to the camera and
\* two transparent ones that the scene iterates front to back.
C32_Witness ==
    /\ order.op = "_sorted_mesh_nodes" /\ order.it = <<"n1", "n2", "n3">>
    /\ order.is_transparent = [n \in Nodes |-> n # "n3"]
    /\ order.cam_loc = <<1, 0, 0>>
    /\ order.posn = [n \in Nodes |-> IF n = "n1" THEN <<0, 0, 0>>
                                     ELSE IF n = "n2" THEN <<0, 2, 1>>
                                     ELSE <<1, 0, 0>>]
    /\ order.ret = <<"n3", "n2", "n1">>

(***************************************************************************)
(* Further claims about the viewer.                                        *)
(***************************************************************************)
\* C33: an on_draw of the threaded viewer that acquired render_lock has released
\* it when control has left on_draw, also when the render raised: the viewer
\* thread owns the lock only between the acquire and the release of on_draw, so
\* that an application thread waiting in render_lock.acquire() obtains the lock.
C33_OnDrawReleasesLock ==
    pc.viewer \notin {"render", "render_text", "release"} =>
        render_lock.owner # ViewerThread

\* A step of the viewer thread that adds a node to the scene or removes one.
ViewerMutation ==
    /\ pc'.viewer # pc.viewer
    /\ Uncached(scene') # Uncached(scene) \/ children' # children

\* C34: every change that the viewer thread of a threaded viewer makes to the
\* scene (in _render and in on_close) is made while the viewer thread owns
\* render_lock, so that it never falls between the acquire and the release of
\* an application thread that updates the scene.
C34_ViewerMutatesUnderLock ==
    [][ViewerMutation => render_lock.owner = ViewerThread]_vars

(***************************************************************************)
(* Claims about the framebuffers, the light budget and the shader cache.   *)
(***************************************************************************)
\* A render with OFFSCREEN that ended without raising.
OffscreenRendered ==
    rlast.op = "render" /\ rlast.exc = None /\ Has(rlast.flags, OFFSCREEN)

ShadowFlagOf(i) ==
    IF i = 1 THEN SHADOWS_DIRECTIONAL ELSE IF i = 2 THEN SHADOWS_SPOT ELSE SHADOWS_POINT

\* The sum of the budgets of the light types whose shadow flag is set.
RECURSIVE ShadowBudget(_, _, _)
ShadowBudget(ret, flags, i) ==
    IF i = 0 THEN 0
    ELSE (IF Has(flags, ShadowFlagOf(i)) THEN ret[i] ELSE 0)
         + ShadowBudget(ret, flags, i - 1)

\* C36: for every choice of the flags and at least 6 texture units, the budget
\* of every light type is between 0 and MAX_N_LIGHTS, it is MAX_N_LIGHTS when
\* the shadow flag of the type is clear, and the budgets of the types whose
\* shadow flag is set sum to at most the texture units beyond the 6 reserved.
C36_LightBudgetWithinMaximum ==
    budget.op # None =>
        /\ \A i \in 1..3 :
               /\ 0 <= budget.ret[i] /\ budget.ret[i] <= MAX_N_LIGHTS
               /\ ~Has(budget.flags, ShadowFlagOf(i)) => budget.ret[i] = MAX_N_LIGHTS
        /\ ShadowBudget(budget.ret, budget.flags, 3)
               <= budget.n_tex_units - n_reserved_textures

\* C37: of the requests made since the cache was created or cleared, two with
\* equal shader files and defines were answered with the same program, two that
\* differ in the set of shader files or in a define name or value with
\* different programs, and no program was compiled more than once.
C37_OneProgramPerRequest ==
    /\ \A i, j \in 1..Len(programs.asked) :
           LET a == programs.asked[i]
               b == programs.asked[j]
           IN  /\ (a.files = b.files /\ a.defines = b.defines) => a.ret = b.ret
               /\ (Range(a.files) # Range(b.files) \/ a.defines # b.defines) =>
                      a.ret # b.ret
    /\ \A prog \in 1..Len(programs.compiled) : programs.compiled[prog] <= 1

(***************************************************************************)
(* Claims about the transform of a node and about Scene(nodes=...).        *)
(***************************************************************************)
\* C38: Node.matrix is the composition of the translation, rotation and scale
\* that the node holds: a read of matrix returns it, also after an element of
\* the translation or of the scale was written through the array the getter
\* returns, and after matrix was assigned the translation, rotation and scale
\* are the decomposition of the matrix assigned.
C38_MatrixFollowsTrs ==
    /\ trs.op = "matrix" =>
           trs.ret = {m_from_tqs(trs.translation, trs.rotation, trs.scale)}
    /\ trs.op = "set_matrix" =>
           \A m \in trs.ret :
               /\ trs.translation = t_from_m(m)
               /\ trs.rotation = q_from_m(m)
               /\ trs.scale = s_from_m(m)
               /\ m_from_tqs(trs.translation, trs.rotation, trs.scale) = m

\* C39: Scene(nodes=L) raises ValueError or builds a scene that holds every node
\* of L; a list whose children lists form a cycle is refused, never answered
\* with a scene that leaves nodes of L out.
C39_SceneHoldsEveryNodeOrRaises ==
    last.op = "Scene" =>
        \/ last.exc = "ValueError"
        \/ last.exc = None /\ Range(last.arg) \subseteq scene.nodes

\* C40: in a render with shadows, the shadow map that the forward pass samples
\* for a light node is the one that the shadow pass of this render drew from
\* the pose of that node, also where two nodes share one light object.
C40_ShadowMapOfTheSameNode ==
    rlast.op = "render" =>
        \A s \in rlast.sampled : s[3] = {s[2]}

====
